---------------------------- MODULE Spec2Model ----------------------------
(***************************************************************************)
(* A model of the verification engine of evalml.                           *)
(*                                                                         *)
(*   src/src/verification/__init__.py                                      *)
(*       ShapefileSpatialAggregationMasks, _compute_scores,                *)
(*       _compute_statistics, _merge_metrics, verify                       *)
(*                                                                         *)
(* Datasets are xarray datasets.  A field is an array over the grid        *)
(* points (the flattened x/y dimensions) for every value of the shared     *)
(* index lead_time.  Floating point numbers are modelled exactly: a grid    *)
(* cell is <<v>>, a reduced value the rational <<num, den>> in lowest      *)
(* terms, a correlation <<sgn, num, den>> (sgn * sqrt(num / den)), and NaN *)
(* is the empty tuple.  Coordinates are in half degrees, so that the       *)
(* built-in rectangle 1.5..16 x 43..49.5 has integer corners.              *)
(***************************************************************************)
EXTENDS Integers, Sequences, FiniteSets, TLC

\* ------------------------------------------------------------------ bounds
\* number of grid points (x and y flattened, row major)
NPts == 3
\* field values are 0, ValStep, .., MaxVal * ValStep
MaxVal == 1
ValStep == 3
\* a forecast holds at most MaxParams parameters
MaxParams == 3
\* lead_time values are 0 .. MaxLead (the truth may reach MaxLead + 1)
MaxLead == 1
\* at most MaxShp shapefile paths in a region list
MaxShp == 2

Pts == 1 .. NPts
NaN == <<>>
Vals == {k * ValStep : k \in 0 .. MaxVal}
Cells == {<<v>> : v \in Vals} \cup {NaN}

\* --------------------------------------------------------------- rationals
Abs(n) == IF n < 0 THEN -n ELSE n

RECURSIVE GCD(_, _)
GCD(a, b) == IF b = 0 THEN a ELSE GCD(b, a % b)

\* the rational n / d (d > 0) in lowest terms
Rat(n, d) ==
    LET g == GCD(Abs(n), d)
    IN  <<n \div g, d \div g>>

RECURSIVE SumOver(_, _)
\* the sum of the cells f[p] over the points p of S (all valid)
SumOver(S, f) ==
    IF S = {} THEN 0
    ELSE LET p == CHOOSE q \in S : TRUE
         IN  f[p][1] + SumOver(S \ {p}, f)

\* ----------------------------------------------------- array operations
\* the points at which an array holds a value
Valid(a) == {p \in Pts : a[p] # NaN}

\* DataArray.where(cond): values outside the mask become NaN, shape preserved
where(a, cond) == [p \in Pts |-> IF cond[p] THEN a[p] ELSE NaN]

\* fcst - obs, elementwise; NaN where either operand is NaN
Minus(a, b) ==
    [p \in Pts |-> IF a[p] = NaN \/ b[p] = NaN THEN NaN ELSE <<a[p][1] - b[p][1]>>]

\* error ** 2
Square(a) == [p \in Pts |-> IF a[p] = NaN THEN NaN ELSE <<a[p][1] * a[p][1]>>]

\* abs(error)
AbsArr(a) == [p \in Pts |-> IF a[p] = NaN THEN NaN ELSE <<Abs(a[p][1])>>]

\* a * b, elementwise
Times(a, b) ==
    [p \in Pts |-> IF a[p] = NaN \/ b[p] = NaN THEN NaN ELSE <<a[p][1] * b[p][1]>>]

\* Variant of mean with skipna=False: one NaN makes the whole reduction NaN.
mean_propagate(a) ==
    IF Valid(a) # Pts THEN NaN
    ELSE Rat(SumOver(Pts, a), Cardinality(Pts))

\* .mean(dim=["x","y"], skipna=True): NaN only when no point is valid
mean(a) ==
    IF Valid(a) = {} THEN NaN
    ELSE Rat(SumOver(Valid(a), a), Cardinality(Valid(a)))

\* n * sum(a^2) - sum(a)^2 over the valid points: n^2 times the variance
VarNum(a) ==
    LET n == Cardinality(Valid(a))
        s == SumOver(Valid(a), a)
    IN  n * SumOver(Valid(a), Square(a)) - s * s

\* .var(dim=["x","y"], skipna=True), ddof = 0
var(a) ==
    IF Valid(a) = {} THEN NaN
    ELSE LET n == Cardinality(Valid(a)) IN Rat(VarNum(a), n * n)

\* .min(dim=["x","y"], skipna=True)
min(a) ==
    IF Valid(a) = {} THEN NaN
    ELSE CHOOSE c \in {a[p] : p \in Valid(a)} : \A p \in Valid(a) : c[1] <= a[p][1]

\* .max(dim=["x","y"], skipna=True)
max(a) ==
    IF Valid(a) = {} THEN NaN
    ELSE CHOOSE c \in {a[p] : p \in Valid(a)} : \A p \in Valid(a) : c[1] >= a[p][1]

Sign(n) == IF n > 0 THEN 1 ELSE IF n < 0 THEN -1 ELSE 0

\* Variant of corr that guards the division: 0 where a variance is zero.
corr_zero(a, b) ==
    LET both == {p \in Pts : a[p] # NaN /\ b[p] # NaN}
        n    == Cardinality(both)
        cov  == n * SumOver(both, Times(a, b)) - SumOver(both, a) * SumOver(both, b)
        va   == n * SumOver(both, Square(a)) - SumOver(both, a) * SumOver(both, a)
        vb   == n * SumOver(both, Square(b)) - SumOver(both, b) * SumOver(both, b)
        sq   == Rat(cov * cov, va * vb)
    IN  IF n = 0 THEN NaN
        ELSE IF va * vb = 0 THEN <<0, 0, 1>>
        ELSE <<Sign(cov), sq[1], sq[2]>>

\* xr.corr(a, b, dim=["x","y"]): both arrays are restricted to the points valid
\* in both, cov = sum(demeaned_a * demeaned_b) / count and
\* corr = cov / (std_a * std_b); 0 / 0 and an empty selection give NaN.
corr(a, b) ==
    LET valid_values == [p \in Pts |-> a[p] # NaN /\ b[p] # NaN]
        da_a == where(a, valid_values)
        da_b == where(b, valid_values)
        n    == Cardinality(Valid(da_a))
        cov  == n * SumOver(Valid(da_a), Times(da_a, da_b))
                  - SumOver(Valid(da_a), da_a) * SumOver(Valid(da_b), da_b)
        den  == VarNum(da_a) * VarNum(da_b)
        sq   == Rat(cov * cov, den)
    IN  IF n = 0 \/ den = 0 THEN NaN
        ELSE <<Sign(cov), sq[1], sq[2]>>

\* xr.corr(...) ** 2
Pow2(c) == IF c = NaN THEN NaN ELSE Rat(c[1] * c[1] * c[2], c[3])

\* ------------------------------------------------------ region mask provider
Range(s) == {s[i] : i \in DOMAIN s}

\* the corners of the rectangle x0..x1 by y0..y1, closed as shapely closes a ring
Rect(x0, x1, y0, y1) == << <<x0, y0>>, <<x1, y0>>, <<x1, y1>>, <<x0, y1>>, <<x0, y0>> >>

\* Polygon(list(zip([1.5, 16, 16, 1.5, 1.5], [43, 43, 49.5, 49.5, 43]))), half degrees
AllPolygon == << <<3, 86>>, <<32, 86>>, <<32, 99>>, <<3, 99>>, <<3, 86>> >>

\* Variant of contains_xy that counts the boundary as inside (covers).
contains_xy_closed(poly, x, y) ==
    LET xs == {poly[i][1] : i \in DOMAIN poly}
        ys == {poly[i][2] : i \in DOMAIN poly}
    IN  /\ \E a \in xs : a <= x
        /\ \E a \in xs : x <= a
        /\ \E b \in ys : b <= y
        /\ \E b \in ys : y <= b

\* shapely.contains_xy for the rectangles of the model: a point of the boundary is
\* not contained
contains_xy(poly, x, y) ==
    LET xs == {poly[i][1] : i \in DOMAIN poly}
        ys == {poly[i][2] : i \in DOMAIN poly}
    IN  /\ \E a \in xs : a < x
        /\ \E a \in xs : x < a
        /\ \E b \in ys : b < y
        /\ \E b \in ys : y < b

\* A path is kept in its parts; Path(shapefile).stem is the name without suffix.
ShpPath(parent, name) == [parent |-> parent, stem |-> name, suffix |-> ".shp"]
stem(path) == path.stem

WestShp    == ShpPath("shp", "west")
AltWestShp == ShpPath("alt", "west")
AllShp     == ShpPath("shp", "all")
EmptyShp   == ShpPath("shp", "empty")
MissingShp == ShpPath("shp", "missing")
Shapefiles == {WestShp, AltWestShp, AllShp, EmptyShp, MissingShp}

\* The shapefiles on disk: the geometries of their records, each with its image
\* under the projection from the source reference system (pyproj's transform).
\* MissingShp is not on disk.
Geometry(id, lonlat) == [lv95 |-> id, lonlat |-> lonlat]
Exists(path) == path # MissingShp
records(path) ==
    IF path = WestShp
    THEN << Geometry("w1", Rect(3, 5, 88, 92)), Geometry("w2", Rect(4, 6, 88, 92)) >>
    ELSE IF path = AltWestShp THEN << Geometry("w3", Rect(5, 8, 88, 92)) >>
    ELSE IF path = AllShp     THEN << Geometry("a1", Rect(0, 5, 80, 100)) >>
    ELSE << >>

\* transform(proj, record.geometry)
transform(geometry) == geometry.lonlat

\* regions[region_name] = polygons on a dict, which keeps insertion order: a name
\* that is already a key keeps its place and takes the new value
DictSet(d, k, v) ==
    IF \E i \in DOMAIN d : d[i].name = k
    THEN [i \in DOMAIN d |-> IF d[i].name = k THEN [name |-> k, polygons |-> v] ELSE d[i]]
    ELSE Append(d, [name |-> k, polygons |-> v])

RECURSIVE ReadShapefiles(_, _)
\* the loop of __init__ over the shapefiles: the region set, or the error of the
\* first file the Reader cannot open
ReadShapefiles(shp, regs) ==
    IF shp = << >> THEN [error |-> "", regions |-> regs]
    ELSE IF ~Exists(Head(shp)) THEN [error |-> "ShapefileException", regions |-> << >>]
    ELSE ReadShapefiles(
             Tail(shp),
             DictSet(regs, stem(Head(shp)),
                     [i \in DOMAIN records(Head(shp)) |-> transform(records(Head(shp))[i])]))

\* The argument shp of __init__: a string, a list of strings, or None.
NoneArg     == [kind |-> "none", shp |-> << >>]
StrArg(p)   == [kind |-> "str", shp |-> <<p>>]
ListArg(ps) == [kind |-> "list", shp |-> ps]

\* ShapefileSpatialAggregationMasks.__init__: iterating over None is a TypeError
ShapefileSpatialAggregationMasks(shp) ==
    IF shp.kind = "none" THEN [error |-> "TypeError", regions |-> << >>]
    ELSE ReadShapefiles(shp.shp, << [name |-> "all", polygons |-> <<AllPolygon>>] >>)

RECURSIVE MaskLoop(_, _, _, _)
\* for poly in polygons: mask |= contains_xy(poly, lon.values, lat.values)
MaskLoop(polygons, mask, lat, lon) ==
    IF polygons = << >> THEN mask
    ELSE MaskLoop(Tail(polygons),
                  [p \in DOMAIN mask |-> mask[p] \/ contains_xy(Head(polygons), lon[p], lat[p])],
                  lat, lon)

\* Variant of _mask_from_polygons that intersects the polygons of a region.
_mask_from_polygons_and(polygons, lat, lon) ==
    [p \in DOMAIN lon |->
        /\ polygons # << >>
        /\ \A j \in DOMAIN polygons : contains_xy(polygons[j], lon[p], lat[p])]

\* mask = np.zeros(lon.shape, dtype=bool), then the loop
_mask_from_polygons(polygons, lat, lon) ==
    MaskLoop(polygons, [p \in DOMAIN lon |-> FALSE], lat, lon)

\* one mask per region, in the order of the region set
get_masks(regs, lat, lon) ==
    [i \in DOMAIN regs |->
        [region |-> regs[i].name,
         mask   |-> _mask_from_polygons(regs[i].polygons, lat, lon)]]

\* _compute_masks(ds): a single mask, of "all", True at every point of the grid.
\* verify does not call it: its masks come from get_masks.
_compute_masks(ds) ==
    << [region |-> "all", mask |-> [p \in DOMAIN ds.longitude |-> TRUE]] >>

\* ---------------------------------------------------------- metric functions
\* A DataArray of one parameter is [data |-> [lead_time -> array over Pts],
\* ref_time |-> ..]; ref_time is [dim |-> its length, 0 when it is no dimension,
\* coord |-> whether a coordinate variable of that name exists].
\* A result dataset is [vars, region, source, lead_time, ref_time, val]: vars are
\* the names <<"param", "METRIC">> (for "param.METRIC"), region is the ordered
\* region coordinate, and val maps <<var, region, source, lead_time>> to a value.
ScoreNames == {"BIAS", "MSE", "MAE", "VAR", "CORR", "R2"}
StatNames  == {"mean", "var", "min", "max"}

\* Variant of ScoreValue whose MAE lacks the abs().
ScoreValueNoAbs(m, fcst, obs) ==
    LET error == Minus(fcst, obs)
    IN  CASE m = "BIAS" -> mean(error)
          [] m = "MSE"  -> mean(Square(error))
          [] m = "MAE"  -> mean(error)
          [] m = "VAR"  -> var(error)
          [] m = "CORR" -> corr(fcst, obs)
          [] m = "R2"   -> Pow2(corr(fcst, obs))

\* the six scores of one pair of arrays, reduced over the grid points
ScoreValue(m, fcst, obs) ==
    LET error == Minus(fcst, obs)
    IN  CASE m = "BIAS" -> mean(error)
          [] m = "MSE"  -> mean(Square(error))
          [] m = "MAE"  -> mean(AbsArr(error))
          [] m = "VAR"  -> var(error)
          [] m = "CORR" -> corr(fcst, obs)
          [] m = "R2"   -> Pow2(corr(fcst, obs))

\* the four statistics of one array, reduced over the grid points
StatValue(m, data) ==
    CASE m = "mean" -> mean(data)
      [] m = "var"  -> var(data)
      [] m = "min"  -> min(data)
      [] m = "max"  -> max(data)

\* _compute_scores(fcst, obs, prefix=prefix + ".", source=source), before any
\* region is attached: val maps <<var, source, lead_time>>
_compute_scores(fcst, obs, prefix, source) ==
    LET names == {<<prefix, m>> : m \in ScoreNames}
        leads == DOMAIN fcst.data
    IN  [vars      |-> names,
         source    |-> {source},
         lead_time |-> leads,
         ref_time  |-> fcst.ref_time,
         val       |-> [k \in names \X {source} \X leads |->
                           ScoreValue(k[1][2], fcst.data[k[3]], obs.data[k[3]])]]

\* _compute_statistics(data, prefix=prefix + ".", source=source)
_compute_statistics(data, prefix, source) ==
    LET names == {<<prefix, m>> : m \in StatNames}
        leads == DOMAIN data.data
    IN  [vars      |-> names,
         source    |-> {source},
         lead_time |-> leads,
         ref_time  |-> data.ref_time,
         val       |-> [k \in names \X {source} \X leads |->
                           StatValue(k[1][2], data.data[k[3]])]]

\* .expand_dims(region=[region])
expand_dims_region(ds, region) ==
    [vars      |-> ds.vars,
     region    |-> <<region>>,
     source    |-> ds.source,
     lead_time |-> ds.lead_time,
     ref_time  |-> ds.ref_time,
     val       |-> [k \in ds.vars \X {region} \X ds.source \X ds.lead_time |->
                       ds.val[<<k[1], k[3], k[4]>>]]]

\* the dataset without variables: xr.merge([]) and the start of every fold
EmptyDataset ==
    [vars |-> {}, region |-> << >>, source |-> {}, lead_time |-> {},
     ref_time |-> [dim |-> 0, coord |-> FALSE], val |-> << >>]

RECURSIVE concat_region(_)
\* xr.concat(list, dim="region") of datasets of one region each (a list of one
\* or more: the region set always holds a region)
concat_region(list) ==
    IF Len(list) = 1 THEN Head(list)
    ELSE LET h == Head(list)
             t == concat_region(Tail(list))
         IN  [h EXCEPT !.region = h.region \o t.region, !.val = h.val @@ t.val]

\* xr.concat([fcst_statistics, obs_statistics], dim="source")
concat_source(a, b) ==
    [a EXCEPT !.source = a.source \cup b.source, !.val = a.val @@ b.val]

\* the region coordinate of an outer join: the names of a, then the new ones of b
JoinRegion(a, b) == a \o SelectSeq(b, LAMBDA r : r \notin Range(a))

MaxOf(a, b) == IF a >= b THEN a ELSE b

\* xr.merge([a, b], join="outer", compat="no_conflicts"): the union of the
\* variables over the union of the coordinates, NaN where a variable has no value
merge2(a, b) ==
    LET vs   == a.vars \cup b.vars
        reg  == JoinRegion(a.region, b.region)
        src  == a.source \cup b.source
        lead == a.lead_time \cup b.lead_time
    IN  [vars      |-> vs,
         region    |-> reg,
         source    |-> src,
         lead_time |-> lead,
         ref_time  |-> [dim   |-> MaxOf(a.ref_time.dim, b.ref_time.dim),
                        coord |-> a.ref_time.coord \/ b.ref_time.coord],
         val       |-> [k \in vs \X Range(reg) \X src \X lead |->
                           IF k \in DOMAIN a.val THEN a.val[k]
                           ELSE IF k \in DOMAIN b.val THEN b.val[k]
                           ELSE NaN]]

RECURSIVE merge(_)
\* xr.merge(list, compat="no_conflicts")
merge(list) ==
    IF list = << >> THEN EmptyDataset ELSE merge2(Head(list), merge(Tail(list)))

\* out.expand_dims("ref_time"): a scalar coordinate becomes the coordinate of the
\* new axis of length 1; without one the variables get the axis and no coordinate
\* variable is made (a dataset without variables gets nothing)
expand_dims_ref_time(ds) ==
    [ds EXCEPT !.ref_time =
        [dim   |-> IF ds.ref_time.coord \/ ds.vars # {} THEN 1 ELSE 0,
         coord |-> ds.ref_time.coord]]

\* .set_coords("ref_time"): a ValueError when the dataset has no such variable
set_coords_ref_time(ds) ==
    IF ds.ref_time.coord THEN [error |-> "", ds |-> ds]
    ELSE [error |-> "ValueError", ds |-> EmptyDataset]

\* _merge_metrics(ds): the merged dataset with a ref_time dimension, or the error
_merge_metrics(ds) ==
    LET out_ == merge(ds)
    IN  IF out_.ref_time.dim = 0
        THEN set_coords_ref_time(expand_dims_ref_time(out_))
        ELSE [error |-> "", ds |-> out_]

\* ------------------------------------------------------------------- verify
VARIABLES
    fcst,           \* argument: the forecast dataset
    obs,            \* argument: the truth dataset
    regions,        \* argument: the region list (a list of paths, a path, None)
    pc,             \* "start", "aligned", "loop", "done", "failed"
    fcst_aligned,   \* the forecast after xr.align
    obs_aligned,    \* the truth after xr.align
    region_polygons,\* the region set: a sequence of [name, polygons]
    masks,          \* a sequence of [region, mask]
    param_i,        \* the place of the loop in fcst_aligned.data_vars
    scores,         \* the list of the per-parameter score datasets
    statistics,     \* the list of the per-parameter statistics datasets
    out,            \* the returned dataset
    error,          \* the exception that ended the call, "" when none did
    log             \* the warnings logged

\* verif_aggregation.py, main
VARIABLES
    verif_files,    \* args.verif_files: the result files, [ref_time, x] each
    agg_pc,         \* "idle", "start", "opened", "done", "failed"
    agg_ds,         \* ds: the dataset given by xr.open_mfdataset
    results,        \* the dataset returned by aggregate_results
    agg_error       \* the exception that ended main, "" when none did

\* verif_plot_metrics.py, main
VARIABLES
    plot_files,     \* args.verif_files: the datasets as they are in the files
    dfs,            \* the list of the datasets read
    plot_pc,        \* "idle", "start", "read", "unique", "selected", "done"
    plot_ds         \* the dataset concatenated along source

\* the loaders of data_input, verif_baseline.py and verif_cosmoe_fct.py
VARIABLES
    loader,         \* the loader that is called, "" when none is
    load_pc,        \* "idle", "start", "selected", "disaggregated", "failed"
    ds_time,        \* ds.time.values: the valid times the dataset holds
    times,          \* the valid times asked for
    acc,            \* TOT_PREC as it is read: accumulated along lead_time
    TOT_PREC,       \* TOT_PREC of the dataset, along lead_time
    loaded,         \* the time axis of the dataset that the loader returned
    load_error,     \* the exception that ended the loader, "" when none did
    load_log        \* the warnings logged by the loader

\* the step range string of a run: the configuration, then the script arguments
VARIABLES
    steps,          \* the string, a sequence of characters
    steps_src,      \* "run", "baseline": a configuration field; "cli": an argument
    steps_pc,       \* "idle", "config", "invalid", "args", "usage_error", "main",
                    \* "opened"
    lead_times,     \* args.steps: the list the parser returned
    steps_error,    \* the exception raised for the string, "" when none was
    opened          \* TRUE when main has opened a dataset

\* evalml/cli.py, execute_workflow
VARIABLES
    cli_data,       \* load_yaml(configfile): the state of each top-level key
    cli_args,       \* target, dry_run, unlock, verbose, report, extra_smk_args
    cli_pc,         \* "idle", "start", "validated", "built", "returned", "raised"
    cli_config,     \* the outcome of ConfigModel.model_validate
    command,        \* the command line built
    launched,       \* the commands given to subprocess.run so far
    returncode,     \* the return code of the subprocess, NoCode before it ends
    cli_raised      \* the exception that ended the call: [type, code]

\* plotting/colormap_loader.py, load_ncl_colormap
VARIABLES
    cmap_file,      \* the file BASE_DIR / filename: [exists, name, lines]
    cmap_pc,        \* "idle", "start", "done"
    cmap_result     \* what the call gave: [error, cmap, norm, bounds]

\* extract_baseline.py, main
VARIABLES
    archive,        \* the reference times of the input files, in the order of input
    cfg,            \* cfg.params and cfg.overwrite
    store,          \* the output store: [exists, reftimes, data_vars]
    store0,         \* the output store as it was before the run
    store_pc,       \* "idle", "start", "checked", "loop", "done", "failed"
    missing,        \* the reference times to extract
    indices,        \* their places in the input (from 0), in the order of the loop
    store_i,        \* the place of the loop in indices
    store_ops       \* the to_zarr calls made: [mode, reftime]

verifyvars == <<fcst, obs, regions, pc, fcst_aligned, obs_aligned, region_polygons,
                masks, param_i, scores, statistics, out, error, log>>
aggvars  == <<verif_files, agg_pc, agg_ds, results, agg_error>>
plotvars == <<plot_files, dfs, plot_pc, plot_ds>>
loadvars == <<loader, load_pc, ds_time, times, acc, TOT_PREC, loaded, load_error,
              load_log>>

stepvars == <<steps, steps_src, steps_pc, lead_times, steps_error, opened>>
clivars == <<cli_data, cli_args, cli_pc, cli_config, command, launched, returncode,
             cli_raised>>
cmapvars == <<cmap_file, cmap_pc, cmap_result>>
storevars == <<archive, cfg, store, store0, store_pc, missing, indices, store_i,
               store_ops>>
scriptvars == <<stepvars, clivars, cmapvars, storevars>>

vars == <<verifyvars, aggvars, plotvars, loadvars, scriptvars>>

\* the labels given as source to the forecast and to the truth
fcst_label == "forecast"
obs_label  == "truth"

\* An input dataset: the data variables in their order, the index lead_time, a
\* field for every variable and lead time, ref_time (see above), and the
\* longitude / latitude of every grid point.
Dataset(data_vars, leads, fld, ref_time, lon, lat) ==
    [data_vars |-> data_vars,
     lead_time |-> leads,
     field     |-> [v \in Range(data_vars) |-> [l \in leads |-> fld]],
     ref_time  |-> ref_time,
     longitude |-> lon,
     latitude  |-> lat]

\* one side of xr.align(fcst, obs, join="inner"): the dataset on the lead times
\* that both datasets hold
align(ds, other) ==
    LET leads == ds.lead_time \cap other.lead_time
    IN  [ds EXCEPT !.lead_time = leads,
                   !.field = [v \in DOMAIN ds.field |-> [l \in leads |-> ds.field[v][l]]]]

\* Variant of masked that leaves the field as it is (no .where).
masked_not(ds, param, mask) ==
    [data     |-> [l \in ds.lead_time |-> ds.field[param][l]],
     ref_time |-> ds.ref_time]

\* ds[param].where(masks.sel(region=region))
masked(ds, param, mask) ==
    [data     |-> [l \in ds.lead_time |-> where(ds.field[param][l], mask)],
     ref_time |-> ds.ref_time]

\* the score of one parameter in one region (lines 176-184)
RegionScore(param, m) ==
    expand_dims_region(
        _compute_scores(masked(fcst_aligned, param, m.mask),
                        masked(obs_aligned, param, m.mask), param, fcst_label),
        m.region)

\* the statistics of the forecast in one region (lines 187-191)
RegionFcstStatistics(param, m) ==
    expand_dims_region(
        _compute_statistics(masked(fcst_aligned, param, m.mask), param, fcst_label),
        m.region)

\* Variant of RegionObsStatistics that takes the statistics of the truth from the
\* masked forecast.
RegionObsStatistics_fcst(param, m) ==
    expand_dims_region(
        _compute_statistics(masked(fcst_aligned, param, m.mask), param, obs_label),
        m.region)

\* the statistics of the truth in one region (lines 192-196)
RegionObsStatistics(param, m) ==
    expand_dims_region(
        _compute_statistics(masked(obs_aligned, param, m.mask), param, obs_label),
        m.region)

\* score = xr.concat(score, dim="region")
ParamScore(param) ==
    concat_region([i \in DOMAIN masks |-> RegionScore(param, masks[i])])

\* xr.concat([fcst_statistics, obs_statistics], dim="source")
ParamStatistics(param) ==
    concat_source(
        concat_region([i \in DOMAIN masks |-> RegionFcstStatistics(param, masks[i])]),
        concat_region([i \in DOMAIN masks |-> RegionObsStatistics(param, masks[i])]))

\* line 159: the inner join of the two datasets; an empty intersection is not
\* looked for
Align ==
    /\ pc = "start"
    /\ fcst_aligned' = align(fcst, obs)
    /\ obs_aligned' = align(obs, fcst)
    /\ pc' = "aligned"
    /\ UNCHANGED <<fcst, obs, regions, region_polygons, masks, param_i, scores,
                   statistics, out, error, log>>
    /\ UNCHANGED <<aggvars, plotvars, loadvars, scriptvars>>

\* lines 160-163: the region set and its masks on the truth's grid
ComputeMasks ==
    /\ pc = "aligned"
    /\ LET built == ShapefileSpatialAggregationMasks(regions)
       IN  IF built.error # ""
           THEN /\ pc' = "failed"
                /\ error' = built.error
                /\ UNCHANGED <<region_polygons, masks>>
           ELSE /\ region_polygons' = built.regions
                /\ masks' = get_masks(built.regions, obs_aligned.latitude,
                                      obs_aligned.longitude)
                /\ pc' = "loop"
                /\ UNCHANGED error
    /\ UNCHANGED <<fcst, obs, regions, fcst_aligned, obs_aligned, param_i, scores,
                   statistics, out, log>>
    /\ UNCHANGED <<aggvars, plotvars, loadvars, scriptvars>>

\* lines 167-202: one turn of the loop over fcst_aligned.data_vars
VerifyParam ==
    /\ pc = "loop"
    /\ param_i <= Len(fcst_aligned.data_vars)
    /\ LET param == fcst_aligned.data_vars[param_i]
       IN  IF param \notin Range(obs_aligned.data_vars)
           THEN /\ log' = Append(log, <<"warning", param>>)
                /\ UNCHANGED <<scores, statistics>>
           ELSE /\ scores' = Append(scores, ParamScore(param))
                /\ statistics' = Append(statistics, ParamStatistics(param))
                /\ UNCHANGED log
    /\ param_i' = param_i + 1
    /\ UNCHANGED <<fcst, obs, regions, pc, fcst_aligned, obs_aligned, region_polygons,
                   masks, out, error>>
    /\ UNCHANGED <<aggvars, plotvars, loadvars, scriptvars>>

\* lines 204-209: the two lists are merged, then merged with each other
Merge ==
    /\ pc = "loop"
    /\ param_i > Len(fcst_aligned.data_vars)
    /\ LET s == _merge_metrics(scores)
           t == _merge_metrics(statistics)
       IN  IF s.error # ""
           THEN pc' = "failed" /\ error' = s.error /\ UNCHANGED out
           ELSE IF t.error # ""
           THEN pc' = "failed" /\ error' = t.error /\ UNCHANGED out
           ELSE pc' = "done" /\ out' = merge2(s.ds, t.ds) /\ UNCHANGED error
    /\ UNCHANGED <<fcst, obs, regions, fcst_aligned, obs_aligned, region_polygons,
                   masks, param_i, scores, statistics, log>>
    /\ UNCHANGED <<aggvars, plotvars, loadvars, scriptvars>>

Next == Align \/ ComputeMasks \/ VerifyParam \/ Merge

\* ------------------------------------------------------------ variable names
\* A python string is the sequence of its characters.  Spelling gives the
\* characters of the parameter and metric names that the model writes as strings.
Spelling(name) ==
    CASE name = "T_2M"     -> <<"T", "_", "2", "M">>
      [] name = "TD_2M"    -> <<"T", "D", "_", "2", "M">>
      [] name = "U_10M"    -> <<"U", "_", "1", "0", "M">>
      [] name = "V_10M"    -> <<"V", "_", "1", "0", "M">>
      [] name = "PS"       -> <<"P", "S">>
      [] name = "PMSL"     -> <<"P", "M", "S", "L">>
      [] name = "TOT_PREC" -> <<"T", "O", "T", "_", "P", "R", "E", "C">>
      [] name = "BIAS"     -> <<"B", "I", "A", "S">>
      [] name = "MSE"      -> <<"M", "S", "E">>
      [] name = "MAE"      -> <<"M", "A", "E">>
      [] name = "VAR"      -> <<"V", "A", "R">>
      [] name = "CORR"     -> <<"C", "O", "R", "R">>
      [] name = "R2"       -> <<"R", "2">>
      [] name = "mean"     -> <<"m", "e", "a", "n">>
      [] name = "var"      -> <<"v", "a", "r">>
      [] name = "min"      -> <<"m", "i", "n">>
      [] name = "max"      -> <<"m", "a", "x">>
      [] name = "STDE"     -> <<"S", "T", "D", "E">>
      [] name = "std"      -> <<"s", "t", "d">>
      [] name = "RMSE"     -> <<"R", "M", "S", "E">>
      [] name = "."        -> <<".">>
      [] name = ".spatial" -> <<".", "s", "p", "a", "t", "i", "a", "l">>

\* f"{prefix}METRIC{suffix}" with prefix = param + "." and the default suffix ""
DataVarName(v) == Spelling(v[1]) \o Spelling(".") \o Spelling(v[2])

\* sub in s
str_contains(s, sub) ==
    \E i \in 1 .. Len(s) - Len(sub) + 1 : SubSeq(s, i, i + Len(sub) - 1) = sub

\* Variant of str_replace that replaces nothing.
str_replace_none(s, old, new) == s

RECURSIVE str_replace(_, _, _)
\* s.replace(old, new): every occurrence, from the left, without overlap
str_replace(s, old, new) ==
    IF Len(s) < Len(old) THEN s
    ELSE IF SubSeq(s, 1, Len(old)) = old
         THEN new \o str_replace(SubSeq(s, Len(old) + 1, Len(s)), old, new)
         ELSE <<Head(s)>> \o str_replace(Tail(s), old, new)

\* ---------------------------------------------------------------- aggregation
\* the greatest number of result files, and the greatest root of a value in them
MaxFiles == 2
MaxRoot == 2

\* the values a result file holds: squares, so that their roots are integers
AggCells == {<<k * k>> : k \in 0 .. MaxRoot} \cup {NaN}

\* the reference times of the result files, <<month, hour>> of one year
InitMonths == {1, 7, 12}
InitHours  == {0, 12}
RefDates   == InitMonths \X InitHours
TimeKey(t) == t[1] * 24 + t[2]

\* the dataset that stands for "none yet"
NoDataset == [data_vars |-> {}, coords |-> {}, ref_time |-> << >>,
              season |-> << >>, val |-> << >>]

\* xr.open_dataset of one result file of verify: the variables of verify's result
\* on one reference time, every one with the value x of the file
open_dataset(file) ==
    LET names == {DataVarName(v) : v \in out.vars}
    IN  [data_vars |-> names,
         coords    |-> {"ref_time", "region", "source", "lead_time"},
         ref_time  |-> <<file.ref_time>>,
         season    |-> << >>,
         val       |-> [k \in names \X {file.ref_time} |-> file.x]]

RECURSIVE SortTimes(_)
\* the reference times of S in ascending order
SortTimes(S) ==
    IF S = {} THEN << >>
    ELSE LET m == CHOOSE t \in S : \A u \in S : TimeKey(t) <= TimeKey(u)
         IN  <<m>> \o SortTimes(S \ {m})

\* xr.open_mfdataset(files, combine="by_coords", ...) of files of one reference
\* time each: the files are ordered by their reference time and concatenated
\* along ref_time; of files with the same reference time the last one stands;
\* when no coordinate differs between the files there is nothing to order them
\* by, and combine_by_coords raises ValueError.
open_mfdataset(files) ==
    LET firsts == {files[i].ref_time : i \in DOMAIN files}
        last(t) == files[CHOOSE i \in DOMAIN files :
                            /\ files[i].ref_time = t
                            /\ \A j \in DOMAIN files : files[j].ref_time = t => j <= i]
        names  == open_dataset(files[1]).data_vars
    IN  IF Len(files) > 1 /\ Cardinality(firsts) = 1
        THEN [error |-> "ValueError", ds |-> NoDataset]
        ELSE [error |-> "",
              ds    |-> [data_vars |-> names,
                         coords    |-> {"ref_time", "region", "source", "lead_time"},
                         ref_time  |-> SortTimes(firsts),
                         season    |-> << >>,
                         val       |-> [k \in names \X firsts |-> last(k[2]).x]]]

\* get_season(time) of verif_aggregation.py (not called by aggregate_results)
get_season(time) ==
    LET month == time[1]
    IN  IF month \in {12, 1, 2} THEN "DJF"
        ELSE IF month \in {3, 4, 5} THEN "MAM"
        ELSE IF month \in {6, 7, 8} THEN "JJA"
        ELSE "SON"

\* Variant of dt_season that counts the seasons from January.
dt_season_january(time) == <<"DJF", "MAM", "JJA", "SON">>[((time[1] - 1) \div 3) + 1]

\* ds.ref_time.dt.season: the season of index (month // 3) % 4
dt_season(time) == <<"DJF", "MAM", "JJA", "SON">>[((time[1] \div 3) % 4) + 1]

\* .mean(dim="ref_time") of one variable over the reference times T: NaN is skipped
mean_ref_time(d, name, T) ==
    LET f     == [t \in T |-> d.val[<<name, t>>]]
        valid == {t \in T : f[t] # NaN}
    IN  IF valid = {} THEN NaN ELSE Rat(SumOver(valid, f), Cardinality(valid))

\* Variant of np_sqrt that leaves the value as it is.
np_sqrt_none(q) == q

\* np.sqrt of a rational q >= 0: <<n, d, 2>> stands for the square root of n / d
np_sqrt(q) == IF q = NaN THEN NaN ELSE <<q[1], q[2], 2>>

\* the labels of groupby("season"), in the sorted order of the groups
SeasonLabels == <<"DJF", "JJA", "MAM", "SON">>

\* var_transform: the new name of every variable that holds VAR, var or MSE
var_transform(data_vars) ==
    [d \in {e \in data_vars : \/ str_contains(e, Spelling("VAR"))
                              \/ str_contains(e, Spelling("var"))
                              \/ str_contains(e, Spelling("MSE"))} |->
        str_replace(str_replace(str_replace(d, Spelling("VAR"), Spelling("STDE")),
                                Spelling("var"), Spelling("std")),
                    Spelling("MSE"), Spelling("RMSE"))]

\* aggregate_results(ds)
aggregate_results(d) ==
    LET T       == Range(d.ref_time)
        groups  == SelectSeq(SeasonLabels, LAMBDA g : \E t \in T : dt_season(t) = g)
        seasons == <<"all">> \o groups
        bucket(se) == IF se = "all" THEN T ELSE {t \in T : dt_season(t) = se}
        tr      == var_transform(d.data_vars)
        renamed(e) == IF e \in DOMAIN tr THEN tr[e] ELSE e
        names   == {renamed(e) : e \in d.data_vars}
        old(n)  == CHOOSE e \in d.data_vars : renamed(e) = n
    IN  [data_vars |-> names,
         coords    |-> (d.coords \ {"ref_time"}) \cup {"season"},
         ref_time  |-> << >>,
         season    |-> seasons,
         val       |-> [k \in names \X Range(seasons) |->
                           LET m == mean_ref_time(d, old(k[1]), bucket(k[2]))
                           IN  IF old(k[1]) \in DOMAIN tr THEN np_sqrt(m) ELSE m]]

\* the init_hour that stands for "all initialization hours" in the readers
init_hour_all == -999

\* ds.sel(season=season, init_hour=init_hour) of load_state_from_netcdf, on an
\* aggregated result: KeyError when a name is no coordinate or a label is absent
sel_season_init_hour(d, season, init_hour) ==
    IF "season" \notin d.coords \/ "init_hour" \notin d.coords
    THEN [error |-> "KeyError", ds |-> NoDataset]
    ELSE IF season \notin Range(d.season)
    THEN [error |-> "KeyError", ds |-> NoDataset]
    ELSE [error |-> "",
          ds    |-> [d EXCEPT !.season = <<season>>,
                              !.val = [k \in d.data_vars \X {season} |-> d.val[k]]]]

\* main of verif_aggregation.py, lines 70-77
OpenMfdataset ==
    /\ agg_pc = "start"
    /\ pc = "done"
    /\ LET r == open_mfdataset(verif_files)
       IN  IF r.error # ""
           THEN agg_pc' = "failed" /\ agg_error' = r.error /\ UNCHANGED agg_ds
           ELSE agg_pc' = "opened" /\ agg_ds' = r.ds /\ UNCHANGED agg_error
    /\ UNCHANGED <<verif_files, results>>
    /\ UNCHANGED <<verifyvars, plotvars, loadvars, scriptvars>>

\* the call with the square roots and the renaming done on the dataset passed
AggregateResultsInPlace ==
    /\ agg_pc = "opened"
    /\ results' = aggregate_results(agg_ds)
    /\ agg_ds' = aggregate_results(agg_ds)
    /\ agg_pc' = "done"
    /\ UNCHANGED <<verif_files, agg_error>>
    /\ UNCHANGED <<verifyvars, plotvars, loadvars, scriptvars>>

\* main of verif_aggregation.py, line 97
AggregateResults ==
    /\ agg_pc = "opened"
    /\ results' = aggregate_results(agg_ds)
    /\ agg_pc' = "done"
    /\ UNCHANGED <<verif_files, agg_ds, agg_error>>
    /\ UNCHANGED <<verifyvars, plotvars, loadvars, scriptvars>>

NextAgg == Align \/ ComputeMasks \/ VerifyParam \/ Merge \/ OpenMfdataset
           \/ AggregateResults

\* ------------------------------------------------------- verif_plot_metrics
\* A dataset read by verif_plot_metrics.py is [source, lead_time, val]: the set
\* of its source labels, the lead_time axis as it is in the file (it may hold a
\* value twice) and, for every source, the values along that axis.

\* ds.isel(lead_time=keep) for the positions keep, in their order
isel_lead_time(d, keep) ==
    LET pos == SelectSeq([i \in DOMAIN d.lead_time |-> i], LAMBDA i : i \in keep)
    IN  [source    |-> d.source,
         lead_time |-> [k \in DOMAIN pos |-> d.lead_time[pos[k]]],
         val       |-> [src \in d.source |-> [k \in DOMAIN pos |-> d.val[src][pos[k]]]]]

\* Variant of _ensure_unique_lead_time that keeps the last occurrence.
_ensure_unique_lead_time_last(d) ==
    LET idx == d.lead_time
        duplicated == {i \in DOMAIN idx : \E j \in DOMAIN idx : j > i /\ idx[j] = idx[i]}
    IN  IF duplicated # {} THEN isel_lead_time(d, DOMAIN idx \ duplicated) ELSE d

\* _ensure_unique_lead_time(ds): idx.duplicated(keep="first") marks every
\* position whose value stands at an earlier position
_ensure_unique_lead_time(d) ==
    LET idx == d.lead_time
        duplicated == {i \in DOMAIN idx : \E j \in DOMAIN idx : j < i /\ idx[j] = idx[i]}
    IN  IF duplicated # {} THEN isel_lead_time(d, DOMAIN idx \ duplicated) ELSE d

\* pd.Index(di["lead_time"].values).unique().size
n_unique_lead_time(d) == Cardinality(Range(d.lead_time))

\* d.drop_sel(source=drop_src)
drop_sel_source(d, drop_src) ==
    [source    |-> d.source \ drop_src,
     lead_time |-> d.lead_time,
     val       |-> [src \in d.source \ drop_src |-> d.val[src]]]

\* Variant of best_provider that takes the dataset with the fewest lead times.
best_provider_fewest(list, src) ==
    LET candidates == {i \in DOMAIN list : src \in list[i].source}
    IN  CHOOSE i \in candidates :
            \A j \in candidates :
                \/ n_unique_lead_time(list[j]) > n_unique_lead_time(list[i])
                \/ (n_unique_lead_time(list[j]) = n_unique_lead_time(list[i]) /\ i <= j)

\* best[s]: max(candidates, key=lambda t: t[1]), the first of the datasets that
\* hold the source with the greatest number of distinct lead times
best_provider(list, src) ==
    LET candidates == {i \in DOMAIN list : src \in list[i].source}
    IN  CHOOSE i \in candidates :
            \A j \in candidates :
                \/ n_unique_lead_time(list[j]) < n_unique_lead_time(list[i])
                \/ (n_unique_lead_time(list[j]) = n_unique_lead_time(list[i]) /\ i <= j)

\* _select_best_sources(dfs)
_select_best_sources(list) ==
    LET all_sources == UNION {list[i].source : i \in DOMAIN list}
    IN  [i \in DOMAIN list |->
            LET drop_src == {src \in all_sources :
                                best_provider(list, src) # i /\ src \in list[i].source}
            IN  IF drop_src # {} THEN drop_sel_source(list[i], drop_src) ELSE list[i]]

RECURSIVE SortInts(_)
\* the numbers of S in ascending order
SortInts(S) ==
    IF S = {} THEN << >>
    ELSE LET m == CHOOSE t \in S : \A u \in S : t <= u
         IN  <<m>> \o SortInts(S \ {m})

\* xr.concat(dfs, dim="source", join="outer") of datasets with distinct sources
\* and unique lead times: every source on the union of the lead times, NaN where
\* its dataset has no value
concat_source_outer(list) ==
    LET leads   == UNION {Range(list[i].lead_time) : i \in DOMAIN list}
        sources == UNION {list[i].source : i \in DOMAIN list}
        of(src) == list[CHOOSE i \in DOMAIN list : src \in list[i].source]
        at(d, src, l) ==
            IF l \in Range(d.lead_time)
            THEN d.val[src][CHOOSE k \in DOMAIN d.lead_time : d.lead_time[k] = l]
            ELSE NaN
    IN  [source    |-> sources,
         lead_time |-> SortInts(leads),
         val       |-> [src \in sources |-> [l \in leads |-> at(of(src), src, l)]]]

\* main of verif_plot_metrics.py, line 78
OpenDatasets ==
    /\ plot_pc = "start"
    /\ dfs' = plot_files
    /\ plot_pc' = "read"
    /\ UNCHANGED <<plot_files, plot_ds>>
    /\ UNCHANGED <<verifyvars, aggvars, loadvars, scriptvars>>

\* line 80
EnsureUniqueLeadTime ==
    /\ plot_pc = "read"
    /\ dfs' = [i \in DOMAIN dfs |-> _ensure_unique_lead_time(dfs[i])]
    /\ plot_pc' = "unique"
    /\ UNCHANGED <<plot_files, plot_ds>>
    /\ UNCHANGED <<verifyvars, aggvars, loadvars, scriptvars>>

\* line 82
SelectBestSources ==
    /\ plot_pc = "unique"
    /\ dfs' = _select_best_sources(dfs)
    /\ plot_pc' = "selected"
    /\ UNCHANGED <<plot_files, plot_ds>>
    /\ UNCHANGED <<verifyvars, aggvars, loadvars, scriptvars>>

\* line 84
ConcatSource ==
    /\ plot_pc = "selected"
    /\ plot_ds' = concat_source_outer(dfs)
    /\ plot_pc' = "done"
    /\ UNCHANGED <<plot_files, dfs>>
    /\ UNCHANGED <<verifyvars, aggvars, loadvars, scriptvars>>

NextPlot == OpenDatasets \/ EnsureUniqueLeadTime \/ SelectBestSources \/ ConcatSource

\* ------------------------------------------------------------------ loaders
\* np.isin(times_np, ds.time.values): the places of the requested times that the
\* dataset holds
times_included(req, have) == {i \in DOMAIN req : req[i] \in have}

\* ds.sel(time=times[times_included]): the time axis of the selection
sel_time(req, keep) ==
    LET pos == SelectSeq([i \in DOMAIN req |-> i], LAMBDA i : i \in keep)
    IN  [k \in DOMAIN pos |-> req[pos[k]]]

\* _select_valid_times(ds, times) of data_input
_select_valid_times(have, req) ==
    LET inc == times_included(req, have)
    IN  IF inc = DOMAIN req
        THEN [error |-> "", log |-> << >>, time |-> sel_time(req, DOMAIN req)]
        ELSE IF inc # {}
        THEN [error |-> "", log |-> <<"warning">>, time |-> sel_time(req, inc)]
        ELSE [error |-> "ValueError", log |-> << >>, time |-> << >>]

\* the selection of the valid times in load_analysis_data_from_zarr of
\* verif_baseline.py and in load_kenda1_data_from_zarr of verif_cosmoe_fct.py:
\* the second test is np.sum(times_included) < len(times_included)
select_valid_times_script(have, req) ==
    LET inc == times_included(req, have)
    IN  IF inc = DOMAIN req
        THEN [error |-> "", log |-> << >>, time |-> sel_time(req, DOMAIN req)]
        ELSE IF Cardinality(inc) < Len(req)
        THEN [error |-> "", log |-> <<"warning">>, time |-> sel_time(req, inc)]
        ELSE [error |-> "ValueError", log |-> << >>, time |-> << >>]

\* .fillna(0)
fillna0(a) == [k \in DOMAIN a |-> IF a[k] = NaN THEN <<0>> ELSE a[k]]

\* .diff("lead_time"): the differences, at the labels of the later values; an
\* array is [lead_time |-> the labels, data |-> the values]
diff_lead_time(a) ==
    [lead_time |-> [k \in 1 .. Len(a.data) - 1 |-> a.lead_time[k + 1]],
     data      |-> [k \in 1 .. Len(a.data) - 1 |-> <<a.data[k + 1][1] - a.data[k][1]>>]]

\* .pad(lead_time=(1, 0), constant_value=None): one place before the first, the
\* data and the label of which are missing (constant_values keeps its default)
pad_lead_time(a) ==
    [lead_time |-> <<NaN>> \o a.lead_time, data |-> <<NaN>> \o a.data]

\* Variant of clip_min0 that clips nothing.
clip_none(a) == a

\* .clip(min=0.0)
clip_min0(a) ==
    [a EXCEPT !.data = [k \in DOMAIN a.data |->
                           IF a.data[k] # NaN /\ a.data[k][1] < 0 THEN <<0>>
                           ELSE a.data[k]]]

\* ds.assign(TOT_PREC=a) on the axis lead: the values of a at the labels of the
\* dataset, missing where a has no such label
assign_on(lead, a) ==
    [k \in DOMAIN lead |->
        IF \E j \in DOMAIN a.lead_time : a.lead_time[j] = lead[k]
        THEN a.data[CHOOSE j \in DOMAIN a.lead_time : a.lead_time[j] = lead[k]]
        ELSE NaN]

\* the lead_time axis of a series: the labels <<1>>, <<2>>, ...
LeadAxis(a) == [k \in DOMAIN a |-> <<k>>]

\* the disaggregation of TOT_PREC in load_fct_data_from_grib and
\* load_baseline_from_zarr
disaggregate(a) ==
    assign_on(LeadAxis(a),
              clip_min0(pad_lead_time(diff_lead_time(
                  [lead_time |-> LeadAxis(a), data |-> fillna0(a)]))))

\* a call of _select_valid_times by a truth loader of data_input
SelectValidTimes ==
    /\ loader = "data_input"
    /\ load_pc = "start"
    /\ LET r == _select_valid_times(ds_time, times)
       IN  /\ load_pc' = IF r.error = "" THEN "selected" ELSE "failed"
           /\ load_error' = r.error
           /\ load_log' = r.log
           /\ loaded' = r.time
    /\ UNCHANGED <<loader, ds_time, times, acc, TOT_PREC>>
    /\ UNCHANGED <<verifyvars, aggvars, plotvars, scriptvars>>

\* load_analysis_data_from_zarr of verif_baseline.py, lines 75-92
SelectValidTimesBaseline ==
    /\ loader = "verif_baseline"
    /\ load_pc = "start"
    /\ LET r == select_valid_times_script(ds_time, times)
       IN  /\ load_pc' = IF r.error = "" THEN "selected" ELSE "failed"
           /\ load_error' = r.error
           /\ load_log' = r.log
           /\ loaded' = r.time
    /\ UNCHANGED <<loader, ds_time, times, acc, TOT_PREC>>
    /\ UNCHANGED <<verifyvars, aggvars, plotvars, scriptvars>>

\* load_kenda1_data_from_zarr of verif_cosmoe_fct.py, lines 69-86
SelectValidTimesCosmoe ==
    /\ loader = "verif_cosmoe_fct"
    /\ load_pc = "start"
    /\ LET r == select_valid_times_script(ds_time, times)
       IN  /\ load_pc' = IF r.error = "" THEN "selected" ELSE "failed"
           /\ load_error' = r.error
           /\ load_log' = r.log
           /\ loaded' = r.time
    /\ UNCHANGED <<loader, ds_time, times, acc, TOT_PREC>>
    /\ UNCHANGED <<verifyvars, aggvars, plotvars, scriptvars>>

\* load_fct_data_from_grib, lines 119-128 (load_baseline_from_zarr, 154-166)
Disaggregate ==
    /\ loader = "forecast"
    /\ load_pc = "start"
    /\ TOT_PREC' = disaggregate(TOT_PREC)
    /\ load_pc' = "disaggregated"
    /\ UNCHANGED <<loader, ds_time, times, acc, loaded, load_error, load_log>>
    /\ UNCHANGED <<verifyvars, aggvars, plotvars, scriptvars>>

NextLoad == SelectValidTimes \/ SelectValidTimesBaseline \/ SelectValidTimesCosmoe
            \/ Disaggregate

\* ------------------------------------------------------- step range strings
\* the decimal digits and their values
Digits == {"0", "1", "2", "3", "4", "5", "6", "7", "8", "9"}
DigitValue(c) ==
    CASE c = "1" -> 1 [] c = "2" -> 2 [] c = "3" -> 3 [] c = "4" -> 4
      [] c = "5" -> 5 [] c = "6" -> 6 [] c = "7" -> 7 [] c = "8" -> 8
      [] c = "9" -> 9 [] OTHER -> 0

\* str.split("/"): the parts between the slashes, the empty ones included
RECURSIVE split(_)
split(s) ==
    IF s = << >> THEN << << >> >>
    ELSE LET rest == split(Tail(s))
         IN  IF Head(s) = "/" THEN << << >> >> \o rest
             ELSE << <<Head(s)>> \o Head(rest) >> \o Tail(rest)

\* the digits of a literal: what follows its sign
Unsigned(x) == IF x # << >> /\ Head(x) \in {"+", "-"} THEN Tail(x) ELSE x

\* int(x) raises ValueError unless x is decimal digits after an optional sign
\* (the white space and the underscores int() allows are not among the characters)
int_raises_never(x) == FALSE
int_raises(x) ==
    \/ Unsigned(x) = << >>
    \/ \E i \in 1 .. Len(Unsigned(x)) : Unsigned(x)[i] \notin Digits

\* int(x)
RECURSIVE int_digits(_)
int_digits(x) ==
    IF x = << >> THEN 0
    ELSE 10 * int_digits(SubSeq(x, 1, Len(x) - 1)) + DigitValue(x[Len(x)])
int(x) == IF x # << >> /\ Head(x) = "-" THEN 0 - int_digits(Unsigned(x))
          ELSE int_digits(Unsigned(x))

\* list(range(start, stop, step)) for a step that is not zero
RECURSIVE range_closed(_, _, _)
range_closed(start, stop, step) ==
    IF (step > 0 /\ start > stop) \/ (step < 0 /\ start < stop) THEN << >>
    ELSE <<start>> \o range_closed(start + step, stop, step)
RECURSIVE range(_, _, _)
range(start, stop, step) ==
    IF (step > 0 /\ start >= stop) \/ (step < 0 /\ start <= stop) THEN << >>
    ELSE <<start>> \o range(start + step, stop, step)

\* parse_steps of data_input: the two format checks, map(int, ...), which raises
\* ValueError on a part that is no integer, and range, which raises it on step 0
parse_steps(s) ==
    LET parts == split(s)
        ValueError == [error |-> "ValueError", value |-> << >>]
    IN  IF \A i \in 1 .. Len(s) : s[i] # "/" THEN ValueError
        ELSE IF Len(parts) # 3 THEN ValueError
        ELSE IF \E i \in 1 .. 3 : int_raises(parts[i]) THEN ValueError
        ELSE IF int(parts[3]) = 0 THEN ValueError
        ELSE [error |-> "",
              value |-> range(int(parts[1]), int(parts[2]) + 1, int(parts[3]))]

\* _parse_steps of the scripts: the same text as parse_steps
_parse_steps(s) == parse_steps(s)

\* RunConfig.validate_steps
validate_steps(v) ==
    LET parts == split(v)
        ValueError == [error |-> "ValueError", value |-> << >>]
    IN  IF \A i \in 1 .. Len(v) : v[i] # "/" THEN ValueError
        ELSE IF Len(parts) # 3 THEN ValueError
        ELSE IF \E i \in 1 .. 3 : int_raises(parts[i]) THEN ValueError
        ELSE IF int(parts[1]) > int(parts[2]) THEN ValueError
        ELSE IF int(parts[3]) <= 0 THEN ValueError
        ELSE [error |-> "", value |-> v]

\* BaselineConfig.steps: the pattern ^\d*/\d*/\d*$
baseline_steps_pattern(v) ==
    /\ Len(split(v)) = 3
    /\ \A i \in 1 .. Len(v) : v[i] \in Digits \cup {"/"}

\* validation of the steps field of a run
ValidateSteps ==
    /\ steps_pc = "config"
    /\ steps_src = "run"
    /\ steps_error' = validate_steps(steps).error
    /\ steps_pc' = IF validate_steps(steps).error = "" THEN "args" ELSE "invalid"
    /\ UNCHANGED <<steps, steps_src, lead_times, opened>>
    /\ UNCHANGED <<verifyvars, aggvars, plotvars, loadvars, clivars, cmapvars, storevars>>

\* validation of the steps field of a baseline
ValidateBaselineSteps ==
    /\ steps_pc = "config"
    /\ steps_src = "baseline"
    /\ steps_error' = IF baseline_steps_pattern(steps) THEN "" ELSE "ValueError"
    /\ steps_pc' = IF baseline_steps_pattern(steps) THEN "args" ELSE "invalid"
    /\ UNCHANGED <<steps, steps_src, lead_times, opened>>
    /\ UNCHANGED <<verifyvars, aggvars, plotvars, loadvars, clivars, cmapvars, storevars>>

\* parser.parse_args() of a script: --steps has type=_parse_steps, and argparse
\* ends the script when the type raises ValueError
ParseSteps ==
    /\ steps_pc = "args"
    /\ lead_times' = _parse_steps(steps).value
    /\ steps_error' = _parse_steps(steps).error
    /\ steps_pc' = IF _parse_steps(steps).error = "" THEN "main" ELSE "usage_error"
    /\ UNCHANGED <<steps, steps_src, opened>>
    /\ UNCHANGED <<verifyvars, aggvars, plotvars, loadvars, clivars, cmapvars, storevars>>

\* main(args): the first dataset is opened
OpenData ==
    /\ steps_pc = "main"
    /\ opened' = TRUE
    /\ steps_pc' = "opened"
    /\ UNCHANGED <<steps, steps_src, lead_times, steps_error>>
    /\ UNCHANGED <<verifyvars, aggvars, plotvars, loadvars, clivars, cmapvars, storevars>>

NextSteps == ValidateSteps \/ ValidateBaselineSteps \/ ParseSteps \/ OpenData

\* ------------------------------------------------------ configuration, cli
\* the fields of ConfigModel, the ones without a default, and a misspelt key
Fields == {"description", "experiment_label", "dates", "runs", "baselines",
           "analysis", "stratification", "locations", "profile"}
Required == Fields \ {"experiment_label"}
Keys == Fields \cup {"runz"}

\* ConfigModel.model_validate(data) with extra = "forbid": a required key that is
\* absent, a value that does not validate, a key that is no field
model_validate_runs_optional(data) ==
    LET errors ==
            {<<k, "Field required">> :
                 k \in {f \in Required \ {"runs"} : data[f] = "absent"}}
            \cup {<<k, "Input should be valid">> :
                      k \in {f \in Fields : data[f] = "invalid"}}
            \cup {<<k, "Extra inputs are not permitted">> :
                      k \in {f \in Keys \ Fields : data[f] # "absent"}}
    IN  [error |-> IF errors = {} THEN "" ELSE "ValidationError",
         errors |-> errors]
model_validate(data) ==
    LET errors ==
            {<<k, "Field required">> :
                 k \in {f \in Required : data[f] = "absent"}}
            \cup {<<k, "Input should be valid">> :
                      k \in {f \in Fields : data[f] = "invalid"}}
            \cup {<<k, "Extra inputs are not permitted">> :
                      k \in {f \in Keys \ Fields : data[f] # "absent"}}
    IN  [error |-> IF errors = {} THEN "" ELSE "ValidationError",
         errors |-> errors]

\* Profile.parsable() of the profile of the configuration
profile_parsable ==
    <<"--executor", "slurm", "--resources", "gpus=1", "--default-resources",
      "slurm_partition=normal", "cpus_per_task=1", "mem_mb_per_cpu=1800",
      "runtime=1h", "--jobs", "1">>

\* the report options of the command
report_options_always(report, dry_run) ==
    <<"--report-after-run", "--report", report>>
report_options(report, dry_run) ==
    IF report # "" /\ ~dry_run THEN <<"--report-after-run", "--report", report>>
    ELSE << >>

NoCode == << >>

\* config = ConfigModel.model_validate(load_yaml(configfile))
ValidateConfig ==
    /\ cli_pc = "start"
    /\ cli_config' = model_validate(cli_data)
    /\ IF model_validate(cli_data).error = ""
       THEN cli_pc' = "validated" /\ UNCHANGED cli_raised
       ELSE /\ cli_pc' = "raised"
            /\ cli_raised' = [type |-> "ValidationError", code |-> NoCode]
    /\ UNCHANGED <<cli_data, cli_args, command, launched, returncode>>
    /\ UNCHANGED <<verifyvars, aggvars, plotvars, loadvars, stepvars, cmapvars, storevars>>

\* the command line: lines 70 to 85 of execute_workflow
BuildCommand ==
    /\ cli_pc = "validated"
    /\ command' =
           <<"snakemake">> \o profile_parsable
           \o <<"--configfile", "config.yaml">> \o <<"--cores", "4">>
           \o (IF cli_args.dry_run THEN <<"--dry-run">> ELSE << >>)
           \o (IF cli_args.unlock THEN <<"--unlock">> ELSE << >>)
           \o (IF cli_args.verbose THEN <<"--printshellcmds">> ELSE << >>)
           \o report_options(cli_args.report, cli_args.dry_run)
           \o <<cli_args.target>>
           \o cli_args.extra_smk_args
    /\ cli_pc' = "built"
    /\ UNCHANGED <<cli_data, cli_args, cli_config, launched, returncode, cli_raised>>
    /\ UNCHANGED <<verifyvars, aggvars, plotvars, loadvars, stepvars, cmapvars, storevars>>

\* the return codes of the subprocess
ReturnCodes == {0, 1, 2}

\* run_command(command): subprocess.run(command).returncode
run_command ==
    /\ cli_pc = "built"
    /\ launched' = Append(launched, command)
    /\ returncode' \in {<<c>> : c \in ReturnCodes}
    /\ cli_pc' = "returned"
    /\ UNCHANGED <<cli_data, cli_args, cli_config, command, cli_raised>>
    /\ UNCHANGED <<verifyvars, aggvars, plotvars, loadvars, stepvars, cmapvars, storevars>>

\* raise SystemExit(...)
RaiseSystemExit ==
    /\ cli_pc = "returned"
    /\ cli_raised' = [type |-> "SystemExit", code |-> returncode]
    /\ cli_pc' = "raised"
    /\ UNCHANGED <<cli_data, cli_args, cli_config, command, launched, returncode>>
    /\ UNCHANGED <<verifyvars, aggvars, plotvars, loadvars, stepvars, cmapvars, storevars>>

NextCli == ValidateConfig \/ BuildCommand \/ run_command \/ RaiseSystemExit

\* ---------------------------------------------------------------- colormaps
\* A line of a colormap file is the sequence of its tokens, a token <<kind, v>>:
\* the integer literal of v, the decimal literal "v.0", a word that is no number,
\* or a word that starts with ';'. A blank line has no token.
IntTok(v)   == <<"int", v>>
FloatTok(v) == <<"float", v>>
WordTok     == <<"word", 0>>
CommentTok  == <<";", 0>>

\* the lines kept: not blank after strip(), not starting with ';'
content_lines(lines) ==
    SelectSeq(lines, LAMBDA l : l # << >> /\ Head(l)[1] # ";")

\* the rows of rgb between the first and the last: rgb[1:-1]
interior_all(rgb) == rgb
interior(rgb) == SubSeq(rgb, 2, Len(rgb) - 1)

\* len(rgb) == n_levs + 1
rgb_count_any(rgb, n_levs) == TRUE
rgb_count_ok(rgb, n_levs) == Len(rgb) = n_levs + 1

NoColormap == [name |-> "", colors |-> << >>, N |-> 0, under |-> << >>, over |-> << >>]
NoNorm == [boundaries |-> << >>, ncolors |-> 0]

\* load_ncl_colormap(filename). lines[0] and lines[1] raise IndexError when the
\* file is too short; int() and float() raise ValueError on a token that is no
\* number of the kind; np.array raises ValueError on rows of unequal length;
\* BoundaryNorm raises ValueError on fewer than two boundaries and on more regions
\* than colours. Neither ListedColormap nor set_under / set_over look at the rows.
load_ncl_colormap(f) ==
    LET Raise(e) == [error |-> e, cmap |-> NoColormap, norm |-> NoNorm,
                     bounds |-> << >>]
        lines == content_lines(f.lines)
        n_levs == lines[1][1][2]
        bounds == [i \in 1 .. Len(lines[2]) |-> lines[2][i][2]]
        rgb_lines == SubSeq(lines, 3, Len(lines))
        rgb == [i \in 1 .. Len(rgb_lines) |->
                    [j \in 1 .. Len(rgb_lines[i]) |-> Rat(rgb_lines[i][j][2], 255)]]
        colors == interior(rgb)
    IN  IF ~f.exists THEN Raise("FileNotFoundError")
        ELSE IF lines = << >> THEN Raise("IndexError")
        ELSE IF Len(lines[1]) # 1 \/ lines[1][1][1] # "int" THEN Raise("ValueError")
        ELSE IF Len(lines) < 2 THEN Raise("IndexError")
        ELSE IF \E i \in 1 .. Len(lines[2]) : lines[2][i][1] \notin {"int", "float"}
             THEN Raise("ValueError")
        ELSE IF Len(bounds) # n_levs THEN Raise("ValueError")
        ELSE IF \E i \in 1 .. Len(rgb_lines) : \E j \in 1 .. Len(rgb_lines[i]) :
                    rgb_lines[i][j][1] # "int"
             THEN Raise("ValueError")
        ELSE IF \E i, j \in 1 .. Len(rgb_lines) : Len(rgb_lines[i]) # Len(rgb_lines[j])
             THEN Raise("ValueError")
        ELSE IF ~rgb_count_ok(rgb, n_levs) THEN Raise("ValueError")
        ELSE IF Len(bounds) < 2 \/ Len(bounds) - 1 > Len(colors)
             THEN Raise("ValueError")
        ELSE [error |-> "",
              cmap |-> [name |-> stem(f.name), colors |-> colors, N |-> Len(colors),
                        under |-> rgb[1], over |-> rgb[Len(rgb)]],
              norm |-> [boundaries |-> bounds, ncolors |-> Len(colors)],
              bounds |-> bounds]

\* a call of load_ncl_colormap
LoadNclColormap ==
    /\ cmap_pc = "start"
    /\ cmap_result' = load_ncl_colormap(cmap_file)
    /\ cmap_pc' = "done"
    /\ UNCHANGED cmap_file
    /\ UNCHANGED <<verifyvars, aggvars, plotvars, loadvars, stepvars, clivars, storevars>>

NextCmap == LoadNclColormap

\* ------------------------------------------------------- extract_baseline
\* check_reftime_consistency: the reference times of the files are delta_h apart
\* (a reference time is counted in steps of delta_h)
check_reftime_consistency(input) ==
    IF \A k \in DOMAIN input : input[k] = input[1] + (k - 1)
    THEN [error |-> "", first |-> input[1], last |-> input[Len(input)]]
    ELSE [error |-> "ValueError", first |-> input[1], last |-> input[1]]

\* np.setdiff1d(a, b): the values of a that are not in b, sorted
setdiff1d(a, b) == SortInts(Range(a) \ Range(b))

\* np.intersect1d(a, b, return_indices=True)[1]: the places (from 0) in a of the
\* values that are also in b, in the order of the values
intersect1d_indices(a, b) ==
    LET common == SortInts(Range(a) \cap Range(b))
    IN  [k \in DOMAIN common |->
             (CHOOSE i \in DOMAIN a :
                  a[i] = common[k] /\ \A j \in DOMAIN a : a[j] = common[k] => i <= j) - 1]

\* lines 149-168: the reference times to extract. The store is read only without
\* overwrite; the stored times are taken out only when the store holds some, its
\* first is the first of the input and its variables are cfg.params
missing_reftimes(reftimes, st, c) ==
    IF /\ ~c.overwrite
       /\ st.exists
       /\ Len(st.reftimes) > 0
       /\ reftimes[1] = st.reftimes[1]
       /\ c.params = st.data_vars
    THEN setdiff1d(reftimes, st.reftimes)
    ELSE reftimes

\* ds.to_zarr(cfg.output_store, mode="w") and mode="a" with append_dim
to_zarr(st, mode, reftime, params) ==
    IF mode = "w"
    THEN [exists |-> TRUE, reftimes |-> <<reftime>>, data_vars |-> params]
    ELSE [st EXCEPT !.reftimes = Append(@, reftime)]

\* lines 138-145: the input files and the check of their reference times
CheckReftimeConsistency ==
    /\ store_pc = "start"
    /\ store_pc' = IF check_reftime_consistency(archive).error = "" THEN "checked"
                   ELSE "failed"
    /\ UNCHANGED <<archive, cfg, store, store0, missing, indices, store_i, store_ops>>
    /\ UNCHANGED <<verifyvars, aggvars, plotvars, loadvars, stepvars, clivars, cmapvars>>

\* lines 147-170: missing and indices
FindMissing ==
    /\ store_pc = "checked"
    /\ missing' = missing_reftimes(archive, store, cfg)
    /\ indices' = intersect1d_indices(archive, missing_reftimes(archive, store, cfg))
    /\ store_i' = 1
    /\ store_pc' = IF missing_reftimes(archive, store, cfg) = << >> THEN "done"
                   ELSE "loop"
    /\ UNCHANGED <<archive, cfg, store, store0, store_ops>>
    /\ UNCHANGED <<verifyvars, aggvars, plotvars, loadvars, stepvars, clivars, cmapvars>>

\* lines 172-193: one turn of the loop, which extracts a file and writes it
WriteReftime ==
    /\ store_pc = "loop"
    /\ LET i == indices[store_i]
           mode == IF i = 0 THEN "w" ELSE "a"
       IN  /\ store' = to_zarr(store, mode, archive[i + 1], cfg.params)
           /\ store_ops' = Append(store_ops, [mode |-> mode, reftime |-> archive[i + 1]])
    /\ store_i' = store_i + 1
    /\ store_pc' = IF store_i = Len(indices) THEN "done" ELSE "loop"
    /\ UNCHANGED <<archive, cfg, store0, missing, indices>>
    /\ UNCHANGED <<verifyvars, aggvars, plotvars, loadvars, stepvars, clivars, cmapvars>>

NextStore == CheckReftimeConsistency \/ FindMissing \/ WriteReftime

\* the scripts that a run does not call
AggIdle ==
    /\ verif_files = << >>
    /\ agg_pc = "idle"
    /\ agg_ds = NoDataset
    /\ results = NoDataset
    /\ agg_error = ""

PlotIdle ==
    /\ plot_files = << >>
    /\ dfs = << >>
    /\ plot_pc = "idle"
    /\ plot_ds = << >>

LoadIdle ==
    /\ loader = ""
    /\ load_pc = "idle"
    /\ ds_time = {}
    /\ times = << >>
    /\ acc = << >>
    /\ TOT_PREC = << >>
    /\ loaded = << >>
    /\ load_error = ""
    /\ load_log = << >>

StepsIdle ==
    /\ steps = << >>
    /\ steps_src = ""
    /\ steps_pc = "idle"
    /\ lead_times = << >>
    /\ steps_error = ""
    /\ opened = FALSE

CliIdle ==
    /\ cli_data = << >>
    /\ cli_args = << >>
    /\ cli_pc = "idle"
    /\ cli_config = [error |-> "", errors |-> {}]
    /\ command = << >>
    /\ launched = << >>
    /\ returncode = NoCode
    /\ cli_raised = [type |-> "", code |-> NoCode]

CmapIdle ==
    /\ cmap_file = [exists |-> FALSE, name |-> "", lines |-> << >>]
    /\ cmap_pc = "idle"
    /\ cmap_result = [error |-> "", cmap |-> NoColormap, norm |-> NoNorm,
                      bounds |-> << >>]

NoStore == [exists |-> FALSE, reftimes |-> << >>, data_vars |-> {}]

StoreIdle ==
    /\ archive = << >>
    /\ cfg = [params |-> {}, overwrite |-> FALSE]
    /\ store = NoStore
    /\ store0 = NoStore
    /\ store_pc = "idle"
    /\ missing = << >>
    /\ indices = << >>
    /\ store_i = 1
    /\ store_ops = << >>

ScriptIdle == StepsIdle /\ CliIdle /\ CmapIdle /\ StoreIdle

\* ------------------------------------------------------------------- inputs
\* The names the loaders give to parameters (PARAMS_MAP_COSMO2).
AllParams == <<"T_2M", "TD_2M", "U_10M", "V_10M", "PS", "PMSL", "TOT_PREC">>

\* ref_time as a dimension (of two reference times), as a scalar coordinate, absent
RefTimeDim    == [dim |-> 2, coord |-> TRUE]
RefTimeScalar == [dim |-> 0, coord |-> TRUE]
RefTimeNone   == [dim |-> 0, coord |-> FALSE]
RefTimes == {RefTimeDim, RefTimeScalar, RefTimeNone}

\* a row of grid points half a degree apart, from lon0 eastwards at latitude lat0
GridLon(lon0) == [p \in Pts |-> lon0 + p - 1]
GridLat(lat0) == [p \in Pts |-> lat0]
DefaultLon == GridLon(4)
DefaultLat == GridLat(90)

\* the fields of the runs that do not vary the data
DefaultFcstField == [p \in Pts |-> IF p = 1 THEN <<ValStep>> ELSE <<0>>]
DefaultObsField  == [p \in Pts |-> <<0>>]

\* the state at the call of verify(fcst, obs, fcst_label, obs_label, regions)
Call(f, o, r) ==
    /\ fcst = f
    /\ obs = o
    /\ regions = r
    /\ pc = "start"
    /\ fcst_aligned = f
    /\ obs_aligned = o
    /\ region_polygons = << >>
    /\ masks = << >>
    /\ param_i = 1
    /\ scores = << >>
    /\ statistics = << >>
    /\ out = EmptyDataset
    /\ error = ""
    /\ log = << >>

\* the sequences over S of length at most n
SeqsUpTo(S, n) == UNION {[1 .. k -> S] : k \in 0 .. n}

\* Calls that vary the parameters of the two datasets, the lead times of the truth,
\* ref_time and the region argument, on the default grid and fields.
Init ==
    \E n \in 1 .. MaxParams, lo \in 0 .. MaxLead + 1, hi \in 0 .. MaxLead + 1,
       rt \in RefTimes :
    \E present \in SUBSET Range(SubSeq(AllParams, 1, n)) :
    \E r \in {NoneArg} \cup {StrArg(p) : p \in Shapefiles}
             \cup {ListArg(ps) : ps \in SeqsUpTo(Shapefiles, 1)} :
        /\ lo <= hi
        /\ Call(Dataset(SubSeq(AllParams, 1, n), 0 .. MaxLead, DefaultFcstField, rt,
                        DefaultLon, DefaultLat),
                Dataset(SelectSeq(AllParams, LAMBDA v : v \in present), lo .. hi,
                        DefaultObsField, rt, DefaultLon, DefaultLat),
                r)
        /\ AggIdle /\ PlotIdle /\ LoadIdle /\ ScriptIdle

Spec == Init /\ [][Next]_vars

\* Calls that vary the region list and the place of the grid, for one parameter.
InitMasks ==
    \E lon0 \in {1, 3, 30}, lat0 \in {85, 90, 99} :
    \E ps \in SeqsUpTo(Shapefiles, MaxShp) :
        /\ Call(Dataset(<<"T_2M">>, {0}, DefaultFcstField, RefTimeScalar,
                        GridLon(lon0), GridLat(lat0)),
                Dataset(<<"T_2M">>, {0}, DefaultObsField, RefTimeScalar,
                        GridLon(lon0), GridLat(lat0)),
                ListArg(ps))
        /\ AggIdle /\ PlotIdle /\ LoadIdle /\ ScriptIdle

SpecMasks == InitMasks /\ [][Next]_vars

\* Calls that vary the two fields, for one parameter and the regions all and west.
InitScores ==
    \E f \in [Pts -> Cells], o \in [Pts -> Cells] :
        /\ Call(Dataset(<<"T_2M">>, {0}, f, RefTimeScalar, DefaultLon, DefaultLat),
                Dataset(<<"T_2M">>, {0}, o, RefTimeScalar, DefaultLon, DefaultLat),
                ListArg(<<WestShp>>))
        /\ AggIdle /\ PlotIdle /\ LoadIdle /\ ScriptIdle

SpecScores == InitScores /\ [][Next]_vars

\* Runs of verif_aggregation.py on one or more result files of verify: verify is
\* called on the default grid and fields for two parameters, and every file
\* holds that result for one reference time with one value.
InitAgg ==
    \E fs \in SeqsUpTo([ref_time : RefDates, x : AggCells], MaxFiles) :
        /\ fs # << >>
        /\ Call(Dataset(<<"T_2M", "PMSL">>, {0}, DefaultFcstField, RefTimeScalar,
                        DefaultLon, DefaultLat),
                Dataset(<<"T_2M", "PMSL">>, {0}, DefaultObsField, RefTimeScalar,
                        DefaultLon, DefaultLat),
                ListArg(<< >>))
        /\ verif_files = fs
        /\ agg_pc = "start"
        /\ agg_ds = NoDataset
        /\ results = NoDataset
        /\ agg_error = ""
        /\ PlotIdle /\ LoadIdle /\ ScriptIdle

SpecAgg == InitAgg /\ [][NextAgg]_vars

\* the greatest length of a lead_time axis in a file, and the lead times on it
MaxLeadLen == 3
PlotLeads == {0, 1}

\* the datasets of the files given to verif_plot_metrics.py: one or both of the
\* two sources on a lead_time axis that may hold a value twice, the value at
\* every place being the number of the place
PlotDatasets ==
    {[source    |-> src,
      lead_time |-> lt,
      val       |-> [x \in src |-> [i \in DOMAIN lt |-> <<i>>]]] :
        src \in (SUBSET {fcst_label, obs_label}) \ {{}},
        lt \in SeqsUpTo(PlotLeads, MaxLeadLen) \ {<< >>}}

\* Runs of verif_plot_metrics.py on one file or on two.
InitPlot ==
    \E a \in PlotDatasets, b \in PlotDatasets, two \in BOOLEAN :
        /\ Call(Dataset(<<"T_2M">>, {0}, DefaultFcstField, RefTimeScalar,
                        DefaultLon, DefaultLat),
                Dataset(<<"T_2M">>, {0}, DefaultObsField, RefTimeScalar,
                        DefaultLon, DefaultLat),
                ListArg(<< >>))
        /\ plot_files = IF two THEN <<a, b>> ELSE <<a>>
        /\ (~two => a = b)
        /\ dfs = << >>
        /\ plot_pc = "start"
        /\ plot_ds = << >>
        /\ AggIdle /\ LoadIdle /\ ScriptIdle

SpecPlot == InitPlot /\ [][NextPlot]_vars

\* the greatest valid time, and the greatest accumulated precipitation
MaxTime == 2
MaxAcc == 2

\* the values of TOT_PREC in a file
AccCells == {<<v>> : v \in 0 .. MaxAcc} \cup {NaN}

\* Calls of the loaders: a truth loader on a dataset that holds some valid times
\* and with some requested ones, or a forecast loader on an accumulated series.
InitLoad ==
    /\ Call(Dataset(<<"T_2M">>, {0}, DefaultFcstField, RefTimeScalar,
                    DefaultLon, DefaultLat),
            Dataset(<<"T_2M">>, {0}, DefaultObsField, RefTimeScalar,
                    DefaultLon, DefaultLat),
            ListArg(<< >>))
    /\ AggIdle /\ PlotIdle /\ ScriptIdle
    /\ load_pc = "start"
    /\ loaded = << >>
    /\ load_error = ""
    /\ load_log = << >>
    /\ \/ /\ loader \in {"data_input", "verif_baseline", "verif_cosmoe_fct"}
          /\ ds_time \in SUBSET (0 .. MaxTime)
          /\ times \in SeqsUpTo(0 .. MaxTime, MaxLeadLen) \ {<< >>}
          /\ acc = << >>
          /\ TOT_PREC = << >>
       \/ /\ loader = "forecast"
          /\ ds_time = {}
          /\ times = << >>
          /\ acc \in SeqsUpTo(AccCells, MaxLeadLen) \ {<< >>}
          /\ TOT_PREC = acc

SpecLoad == InitLoad /\ [][NextLoad]_vars

\* the parts of the step strings, and the number of parts of a string
MaxStepParts == 4
StepParts == {<< >>, <<"0">>, <<"2">>, <<"5">>, <<"1", "0">>, <<"-", "1">>, <<"x">>}

\* "/".join(parts)
RECURSIVE join(_)
join(parts) ==
    IF Len(parts) = 1 THEN parts[1]
    ELSE parts[1] \o <<"/">> \o join(Tail(parts))

\* the verify call that the scripts of the other specifications do not vary
DefaultCall ==
    Call(Dataset(<<"T_2M">>, {0}, DefaultFcstField, RefTimeScalar,
                 DefaultLon, DefaultLat),
         Dataset(<<"T_2M">>, {0}, DefaultObsField, RefTimeScalar,
                 DefaultLon, DefaultLat),
         ListArg(<< >>))

\* A step string made of one to MaxStepParts parts, given as the steps of a run or
\* of a baseline in the configuration, or to a script on its command line.
InitSteps ==
    /\ DefaultCall
    /\ AggIdle /\ PlotIdle /\ LoadIdle /\ CliIdle /\ CmapIdle /\ StoreIdle
    /\ \E k \in 1 .. MaxStepParts : \E parts \in [1 .. k -> StepParts] :
           steps = join(parts)
    /\ steps_src \in {"run", "baseline", "cli"}
    /\ steps_pc = IF steps_src = "cli" THEN "args" ELSE "config"
    /\ lead_times = << >>
    /\ steps_error = ""
    /\ opened = FALSE

SpecSteps == InitSteps /\ [][NextSteps]_vars

\* the example configuration: every required key with a valid value
ExampleConfig == [k \in Keys |-> IF k \in Required THEN "valid" ELSE "absent"]

\* the number of keys in which a configuration differs from the example
MaxDefects == 1

\* A call of execute_workflow on a configuration that differs from the example in
\* at most MaxDefects keys (removed, given a value that does not validate, added),
\* with any combination of the options.
InitCli ==
    /\ DefaultCall
    /\ AggIdle /\ PlotIdle /\ LoadIdle /\ StepsIdle /\ CmapIdle /\ StoreIdle
    /\ cli_data \in {c \in [Keys -> {"absent", "valid", "invalid"}] :
                        Cardinality({k \in Keys : c[k] # ExampleConfig[k]})
                            <= MaxDefects}
    /\ cli_args \in [target : {"experiment_all", "showcase_all", "sandbox_all"},
                     dry_run : BOOLEAN, unlock : BOOLEAN, verbose : BOOLEAN,
                     report : {"", "report.html"},
                     extra_smk_args : {<< >>, <<"--forceall">>, <<"--report">>}]
    /\ cli_pc = "start"
    /\ cli_config = [error |-> "", errors |-> {}]
    /\ command = << >>
    /\ launched = << >>
    /\ returncode = NoCode
    /\ cli_raised = [type |-> "", code |-> NoCode]

SpecCli == InitCli /\ [][NextCli]_vars

\* the largest level count of a colormap file
MaxLevels == 3

\* the value of component j of RGB row i of the files
RgbValue(i, j) == 40 * i + j

\* The lines of a file: an optional comment at the head, a first line (the level
\* count n, that count as a decimal, a word, or no first line), an optional blank
\* or comment line, a line of m bounds 0, 1, ..., r RGB rows of w values. One
\* token can be spoilt: a bound or an RGB value that is a word, or a last row
\* that lacks a value.
CmapLines(first, n, m, r, w, extra, bad) ==
    (IF extra = "head" THEN << <<CommentTok, WordTok>> >> ELSE << >>)
    \o (CASE first = "int"   -> << <<IntTok(n)>> >>
          [] first = "float" -> << <<FloatTok(n)>> >>
          [] first = "word"  -> << <<WordTok>> >>
          [] OTHER           -> << >>)
    \o (CASE extra = "blank"   -> << << >> >>
          [] extra = "comment" -> << <<CommentTok>> >>
          [] OTHER             -> << >>)
    \o (IF m = 0 THEN << >>
        ELSE << [i \in 1 .. m |-> IF bad = "bound" /\ i = m THEN WordTok
                                  ELSE IF i = 1 THEN FloatTok(0) ELSE IntTok(i - 1)] >>)
    \o [i \in 1 .. r |->
            [j \in 1 .. (IF bad = "ragged" /\ i = r THEN w - 1 ELSE w) |->
                 IF bad = "rgb" /\ i = r /\ j = 1 THEN WordTok
                 ELSE IntTok(RgbValue(i, j))]]

\* A call of load_ncl_colormap on a file that is missing or holds such lines.
InitCmap ==
    /\ DefaultCall
    /\ AggIdle /\ PlotIdle /\ LoadIdle /\ StepsIdle /\ CliIdle /\ StoreIdle
    /\ \E first \in {"int", "float", "word", "none"}, n \in 1 .. MaxLevels,
          m \in 0 .. MaxLevels + 1, r \in 0 .. MaxLevels + 2, w \in {2, 3},
          extra \in {"none", "head", "blank", "comment"},
          bad \in {"none", "bound", "rgb", "ragged"}, e \in BOOLEAN :
           cmap_file = [exists |-> e,
                        name |-> [parent |-> "", stem |-> "test_colormap",
                                  suffix |-> ".ct"],
                        lines |-> IF e THEN CmapLines(first, n, m, r, w, extra, bad)
                                  ELSE << >>]
    /\ cmap_pc = "start"
    /\ cmap_result = [error |-> "", cmap |-> NoColormap, norm |-> NoNorm,
                      bounds |-> << >>]

SpecCmap == InitCmap /\ [][NextCmap]_vars

\* the latest reference time, and the most reference times a store holds at first
MaxRef == 3
MaxStored == 2

\* the sequences of distinct reference times of length at most n
DistinctSeqs(n) ==
    {s \in SeqsUpTo(0 .. MaxRef, n) : \A i, j \in DOMAIN s : i # j => s[i] # s[j]}

\* A run of main on an archive of files (sorted, so of ascending reference times,
\* with or without a gap) and an output store that does not exist, or holds some
\* reference times of the variables cfg.params or of others.
InitStore ==
    /\ DefaultCall
    /\ AggIdle /\ PlotIdle /\ LoadIdle /\ StepsIdle /\ CliIdle /\ CmapIdle
    /\ \E S \in SUBSET (0 .. MaxRef) \ {{}} : archive = SortInts(S)
    /\ cfg \in [params : {{"T_2M", "PMSL"}}, overwrite : BOOLEAN]
    /\ \/ store = NoStore
       \/ store \in [exists : {TRUE}, reftimes : DistinctSeqs(MaxStored),
                     data_vars : {{"T_2M", "PMSL"}, {"T_2M"}}]
    /\ store0 = store
    /\ store_pc = "start"
    /\ missing = << >>
    /\ indices = << >>
    /\ store_i = 1
    /\ store_ops = << >>

SpecStore == InitStore /\ [][NextStore]_vars

\* --------------------------------------------------------------- properties
Terminated == pc \in {"done", "failed"}

\* the parameters held by both datasets
Common == Range(fcst.data_vars) \cap Range(obs.data_vars)

\* the parameters a result holds variables of
ParamsOf(ds) == {v[1] : v \in ds.vars}

\* the region argument can be read, and ref_time is a coordinate of the inputs
RegionsReadable == ShapefileSpatialAggregationMasks(regions).error = ""
HasRefTime      == fcst.ref_time.coord

\* C1: a forecast parameter that the truth lacks is skipped and never aborts the
\* run: every call (with a readable region list and a ref_time coordinate) ends
\* with a result that holds the score and statistics variables of exactly the
\* parameters of both datasets, however many parameters are missing.
C1_MissingParamsNeverAbort ==
    (Terminated /\ RegionsReadable /\ HasRefTime) =>
        /\ pc = "done"
        /\ out.vars = Common \X (ScoreNames \cup StatNames)

\* C1, restricted: the same when at least one parameter is in both datasets.
C1_SomeCommonParam ==
    (Terminated /\ RegionsReadable /\ HasRefTime /\ Common # {}) =>
        /\ pc = "done"
        /\ out.vars = Common \X (ScoreNames \cup StatNames)
        /\ Len(log) = Cardinality(Range(fcst.data_vars) \ Common)

\* C2: when the inner join leaves no common lead time, verify fails with an
\* AlignmentError before any mask or metric is computed, and returns no result.
C2_EmptyIntersectionFails ==
    (pc # "start" /\ fcst.lead_time \cap obs.lead_time = {}) =>
        /\ pc = "failed"
        /\ error = "AlignmentError"
        /\ masks = << >>
        /\ scores = << >>

\* C3: verify called with regions = None succeeds and yields results for exactly
\* one region, named "all".
C3_NoneMeansAllRegion ==
    (Terminated /\ regions = NoneArg /\ HasRefTime /\ Common # {}) =>
        /\ pc = "done"
        /\ out.region = <<"all">>

MasksComputed == pc \in {"loop", "done"} \/ (pc = "failed" /\ masks # << >>)

\* the mask of a region
MaskOf(r) == (CHOOSE i \in DOMAIN masks : masks[i].region = r)

\* C4 as stated: without explicit regions the mask of "all" is True at every point
\* of the grid, wherever the grid lies.
C4_AllMaskTrueEverywhere ==
    (MasksComputed /\ regions = ListArg(<< >>)) =>
        \A p \in Pts : masks[MaskOf("all")].mask[p]

\* C4 as amended: without explicit regions there is one mask, of "all", and it is
\* True exactly at the points strictly inside the rectangle 1.5..16 degrees east,
\* 43..49.5 degrees north (3..32 and 86..99 half degrees).
C4_AllMaskIsBuiltInRectangle ==
    (MasksComputed /\ regions = ListArg(<< >>)) =>
        /\ Len(masks) = 1
        /\ masks[1].region = "all"
        /\ \A p \in Pts :
              masks[1].mask[p] <=>
                  /\ 3 < obs_aligned.longitude[p] /\ obs_aligned.longitude[p] < 32
                  /\ 86 < obs_aligned.latitude[p] /\ obs_aligned.latitude[p] < 99

\* C4: a grid that the rectangle holds in part (a point on its western edge)
C4_Witness ==
    /\ MasksComputed
    /\ regions = ListArg(<< >>)
    /\ \E p \in Pts : masks[1].mask[p]
    /\ \E p \in Pts : ~masks[1].mask[p] /\ obs_aligned.longitude[p] = 3

\* C5: get_masks returns one mask per region of the region set, in its order, each
\* of the shape of the longitude array, True at a point exactly when the point is
\* inside at least one polygon of the region.
C5_MaskIsUnionOfPolygons ==
    MasksComputed =>
        /\ Len(masks) = Len(region_polygons)
        /\ \A i \in DOMAIN masks :
              /\ masks[i].region = region_polygons[i].name
              /\ DOMAIN masks[i].mask = DOMAIN obs_aligned.longitude
              /\ \A p \in Pts :
                    masks[i].mask[p] <=>
                        \E j \in DOMAIN region_polygons[i].polygons :
                            contains_xy(region_polygons[i].polygons[j],
                                        obs_aligned.longitude[p], obs_aligned.latitude[p])

\* C5: a region of two polygons with a point in the first only and a point in the
\* second only, both in the mask
C5_Witness ==
    /\ MasksComputed
    /\ \E i \in DOMAIN masks :
          /\ Len(region_polygons[i].polygons) = 2
          /\ \E p \in Pts, q \in Pts :
                /\ masks[i].mask[p] /\ masks[i].mask[q]
                /\ contains_xy(region_polygons[i].polygons[1],
                               obs_aligned.longitude[p], obs_aligned.latitude[p])
                /\ ~contains_xy(region_polygons[i].polygons[2],
                                obs_aligned.longitude[p], obs_aligned.latitude[p])
                /\ ~contains_xy(region_polygons[i].polygons[1],
                                obs_aligned.longitude[q], obs_aligned.latitude[q])
                /\ contains_xy(region_polygons[i].polygons[2],
                               obs_aligned.longitude[q], obs_aligned.latitude[q])

\* ------------------------------------------- properties of the reduced values
\* The reductions written over an explicit set S of points: only the cells of S
\* are read.
RefMean(S, a) ==
    IF S = {} THEN NaN ELSE Rat(SumOver(S, a), Cardinality(S))

RefVar(S, a) ==
    IF S = {} THEN NaN
    ELSE Rat(Cardinality(S) * SumOver(S, Square(a)) - SumOver(S, a) * SumOver(S, a),
             Cardinality(S) * Cardinality(S))

RefMin(S, a) ==
    IF S = {} THEN NaN ELSE CHOOSE c \in {a[p] : p \in S} : \A p \in S : c[1] <= a[p][1]

RefMax(S, a) ==
    IF S = {} THEN NaN ELSE CHOOSE c \in {a[p] : p \in S} : \A p \in S : c[1] >= a[p][1]

\* n^2 times the covariance of a and b over S
RefCovNum(S, a, b) ==
    Cardinality(S) * SumOver(S, Times(a, b)) - SumOver(S, a) * SumOver(S, b)

\* the forecast and the truth of a parameter at a lead time, and their difference
Fc(v, l) == fcst_aligned.field[v][l]
Ob(v, l) == obs_aligned.field[v][l]
Er(v, l) == Minus(Fc(v, l), Ob(v, l))

\* the points a mask selects; those where the forecast, the truth, both hold a value
Sel(i)          == {p \in Pts : masks[i].mask[p]}
FcValid(v, l, i) == {p \in Sel(i) : Fc(v, l)[p] # NaN}
ObValid(v, l, i) == {p \in Sel(i) : Ob(v, l)[p] # NaN}
Both(v, l, i)    == FcValid(v, l, i) \cap ObValid(v, l, i)

\* the value the result holds for "v.m" in the region of mask i
Score(v, m, l, i)   == out.val[<< <<v, m>>, masks[i].region, fcst_label, l >>]
FcStat(v, m, l, i)  == out.val[<< <<v, m>>, masks[i].region, fcst_label, l >>]
ObStat(v, m, l, i)  == out.val[<< <<v, m>>, masks[i].region, obs_label, l >>]

\* the cases: a verified parameter, a lead time and a mask of a finished call
Cases == IF pc = "done" THEN Common \X out.lead_time \X DOMAIN masks ELSE {}

\* C6: for a region whose mask selects the points S, every score and statistic of
\* the region is the reduction over the points of S (that hold a value): the sums
\* and the counts take no point outside S.
C6_ReducedOverMaskOnly ==
    \A c \in Cases :
        LET v == c[1]
            l == c[2]
            i == c[3]
            B == Both(v, l, i)
        IN  /\ Score(v, "BIAS", l, i) = RefMean(B, Er(v, l))
            /\ Score(v, "MSE", l, i)  = RefMean(B, Square(Er(v, l)))
            /\ Score(v, "MAE", l, i)  = RefMean(B, AbsArr(Er(v, l)))
            /\ Score(v, "VAR", l, i)  = RefVar(B, Er(v, l))
            /\ Score(v, "CORR", l, i) # NaN =>
                  /\ Score(v, "CORR", l, i)[1] = Sign(RefCovNum(B, Fc(v, l), Ob(v, l)))
                  /\ Score(v, "CORR", l, i)[2]
                         * RefCovNum(B, Fc(v, l), Fc(v, l)) * RefCovNum(B, Ob(v, l), Ob(v, l))
                     = Score(v, "CORR", l, i)[3]
                         * RefCovNum(B, Fc(v, l), Ob(v, l)) * RefCovNum(B, Fc(v, l), Ob(v, l))
            /\ Score(v, "CORR", l, i) = NaN <=>
                  \/ B = {}
                  \/ RefCovNum(B, Fc(v, l), Fc(v, l)) = 0
                  \/ RefCovNum(B, Ob(v, l), Ob(v, l)) = 0
            /\ FcStat(v, "mean", l, i) = RefMean(FcValid(v, l, i), Fc(v, l))
            /\ FcStat(v, "var", l, i)  = RefVar(FcValid(v, l, i), Fc(v, l))
            /\ FcStat(v, "min", l, i)  = RefMin(FcValid(v, l, i), Fc(v, l))
            /\ FcStat(v, "max", l, i)  = RefMax(FcValid(v, l, i), Fc(v, l))
            /\ ObStat(v, "mean", l, i) = RefMean(ObValid(v, l, i), Ob(v, l))
            /\ ObStat(v, "var", l, i)  = RefVar(ObValid(v, l, i), Ob(v, l))
            /\ ObStat(v, "min", l, i)  = RefMin(ObValid(v, l, i), Ob(v, l))
            /\ ObStat(v, "max", l, i)  = RefMax(ObValid(v, l, i), Ob(v, l))

\* C6: a region that leaves out a point whose error is not zero, so that its bias
\* differs from the bias of the whole grid
C6_Witness ==
    \E c \in Cases :
        /\ Sel(c[3]) # Pts
        /\ Cardinality(Both(c[1], c[2], c[3])) >= 2
        /\ \E p \in Pts \ Sel(c[3]) : Er(c[1], c[2])[p] \notin {NaN, <<0>>}
        /\ \E j \in DOMAIN masks :
              Sel(j) = Pts /\ Score(c[1], "BIAS", c[2], j) # Score(c[1], "BIAS", c[2], c[3])

\* the constant differences the fields of the model can have
Offsets == {a - b : a \in Vals, b \in Vals}

\* C7: if forecast = truth + k at every point of a region that holds a value in
\* both (there is one), then BIAS = k, MAE = |k| and MSE = k^2 in that region.
C7_ConstantOffset ==
    \A c \in Cases : \A k \in Offsets :
        LET v == c[1]
            l == c[2]
            i == c[3]
            B == Both(v, l, i)
        IN  (B # {} /\ \A p \in B : Fc(v, l)[p][1] = Ob(v, l)[p][1] + k) =>
                /\ Score(v, "BIAS", l, i) = <<k, 1>>
                /\ Score(v, "MAE", l, i)  = <<Abs(k), 1>>
                /\ Score(v, "MSE", l, i)  = <<k * k, 1>>

\* C7: the forecast is below the truth by the same amount at every point
C7_Witness ==
    \E c \in Cases :
        /\ Sel(c[3]) = Pts
        /\ Both(c[1], c[2], c[3]) = Pts
        /\ \A p \in Pts : Fc(c[1], c[2])[p][1] = Ob(c[1], c[2])[p][1] - ValStep
        /\ Score(c[1], "BIAS", c[2], c[3]) = <<-ValStep, 1>>
        /\ Score(c[1], "MSE", c[2], c[3]) = <<ValStep * ValStep, 1>>

\* a field takes one value only on the points of S
Constant(S, a) == \A p \in S, q \in S : a[p] = a[q]

\* C8: CORR is 1 when forecast = truth on the reduced points and the field is not
\* constant there; it is NaN when the forecast or the truth is constant there (no
\* variance); R2 is the square of CORR, and NaN when CORR is.
C8_Correlation ==
    \A c \in Cases :
        LET v == c[1]
            l == c[2]
            i == c[3]
            B == Both(v, l, i)
            r == Score(v, "CORR", l, i)
        IN  /\ ((\A p \in B : Fc(v, l)[p] = Ob(v, l)[p]) /\ ~Constant(B, Ob(v, l)))
                   => r = <<1, 1, 1>>
            /\ (Constant(B, Fc(v, l)) \/ Constant(B, Ob(v, l))) => r = NaN
            /\ r = NaN => Score(v, "R2", l, i) = NaN
            /\ r # NaN => Score(v, "R2", l, i) = <<r[2], r[3]>>

\* C8: forecast = truth, varying over the grid (CORR = 1) and constant over the
\* points of another region (CORR is NaN there)
C8_Witness ==
    \E c \in Cases : \E j \in DOMAIN masks :
        /\ Fc(c[1], c[2]) = Ob(c[1], c[2])
        /\ Valid(Fc(c[1], c[2])) = Pts
        /\ Score(c[1], "CORR", c[2], c[3]) = <<1, 1, 1>>
        /\ Score(c[1], "R2", c[2], c[3]) = <<1, 1>>
        /\ Cardinality(Sel(j)) >= 2
        /\ Score(c[1], "CORR", c[2], j) = NaN

\* C9: if a cell of the forecast is NaN in a region and another cell of the region
\* holds a value in both fields, then BIAS, MAE, MSE, VAR and the statistics mean,
\* var, min, max are not NaN: they are the reductions over the cells that hold a
\* value.
C9_NaNSkipped ==
    \A c \in Cases :
        LET v == c[1]
            l == c[2]
            i == c[3]
            B == Both(v, l, i)
        IN  ((\E p \in Sel(i) : Fc(v, l)[p] = NaN) /\ B # {}) =>
                /\ \A m \in {"BIAS", "MAE", "MSE", "VAR"} : Score(v, m, l, i) # NaN
                /\ \A m \in StatNames : FcStat(v, m, l, i) # NaN /\ ObStat(v, m, l, i) # NaN
                /\ Score(v, "BIAS", l, i) = Rat(SumOver(B, Er(v, l)), Cardinality(B))
                /\ Score(v, "MAE", l, i) = Rat(SumOver(B, AbsArr(Er(v, l))), Cardinality(B))
                /\ Score(v, "MSE", l, i) = Rat(SumOver(B, Square(Er(v, l))), Cardinality(B))
                /\ Score(v, "VAR", l, i) = RefVar(B, Er(v, l))
                /\ FcStat(v, "mean", l, i)
                       = Rat(SumOver(FcValid(v, l, i), Fc(v, l)), Cardinality(FcValid(v, l, i)))
                /\ ObStat(v, "mean", l, i)
                       = Rat(SumOver(ObValid(v, l, i), Ob(v, l)), Cardinality(ObValid(v, l, i)))

\* C9: one cell of the forecast is NaN, the others and the truth hold values that
\* differ from point to point
C9_Witness ==
    \E c \in Cases :
        /\ Sel(c[3]) = Pts
        /\ Cardinality(Valid(Fc(c[1], c[2]))) = NPts - 1
        /\ Valid(Ob(c[1], c[2])) = Pts
        /\ ~Constant(Both(c[1], c[2], c[3]), Er(c[1], c[2]))
        /\ Score(c[1], "BIAS", c[2], c[3]) # NaN

\* C10: every call on inputs with a common parameter and a readable region list
\* returns a result with a ref_time dimension: the one of the inputs when they
\* have it as a dimension, otherwise (a scalar coordinate, or no ref_time at all)
\* a new axis of length 1.
C10_RefTimeDimension ==
    (Terminated /\ RegionsReadable /\ Common # {}) =>
        /\ pc = "done"
        /\ out.ref_time.dim = (IF fcst.ref_time.dim > 0 THEN fcst.ref_time.dim ELSE 1)

\* C10, restricted to inputs that hold ref_time as a dimension or as a coordinate
C10_RefTimeCoordinate ==
    (Terminated /\ RegionsReadable /\ Common # {} /\ HasRefTime) =>
        /\ pc = "done"
        /\ out.ref_time.dim = (IF fcst.ref_time.dim > 0 THEN fcst.ref_time.dim ELSE 1)
        /\ out.ref_time.coord


\* ----------------------------------------------- the source labels of a result
\* C11: in the result of verify, for every verified parameter and region, the six
\* error metrics hold their value under source = forecast label and nothing (NaN)
\* under the truth label, while each of the four statistics is held under the
\* forecast label, computed from the masked forecast alone, and under the truth
\* label, computed from the masked truth alone.
C11_SourceLabels ==
    \A c \in Cases :
        LET v  == c[1]
            l  == c[2]
            i  == c[3]
            r  == masks[i].region
            mf == where(Fc(v, l), masks[i].mask)
            mo == where(Ob(v, l), masks[i].mask)
        IN  /\ out.source = {fcst_label, obs_label}
            /\ \A m \in ScoreNames :
                   /\ out.val[<< <<v, m>>, r, fcst_label, l >>] = ScoreValue(m, mf, mo)
                   /\ out.val[<< <<v, m>>, r, obs_label, l >>] = NaN
            /\ \A m \in StatNames :
                   /\ out.val[<< <<v, m>>, r, fcst_label, l >>] = StatValue(m, mf)
                   /\ out.val[<< <<v, m>>, r, obs_label, l >>] = StatValue(m, mo)

\* A finished call in which, in some region, the forecast and the truth have
\* different means and a defined bias, while the truth misses a point that the
\* forecast holds.
C11_Witness ==
    /\ pc = "done"
    /\ \E c \in Cases :
           /\ FcStat(c[1], "mean", c[2], c[3]) # NaN
           /\ ObStat(c[1], "mean", c[2], c[3]) # NaN
           /\ FcStat(c[1], "mean", c[2], c[3]) # ObStat(c[1], "mean", c[2], c[3])
           /\ Score(c[1], "BIAS", c[2], c[3]) # NaN
           /\ FcValid(c[1], c[2], c[3]) # ObValid(c[1], c[2], c[3])

\* ------------------------------------------------ properties of the aggregation
\* the metric names of a result of verify, and those of an aggregated result
VerifMetrics == {"BIAS", "MSE", "MAE", "VAR", "CORR", "R2", "mean", "var", "min", "max"}
AggMetrics   == {"BIAS", "RMSE", "MAE", "STDE", "CORR", "R2", "mean", "std", "min", "max"}

\* n is "<param>.<METRIC>" or "<param>.<METRIC>.spatial" for a forecast parameter
\* and a metric of the given set
Named(n, metrics) ==
    \E param \in Range(fcst.data_vars), m \in metrics,
       suffix \in {<< >>, Spelling(".spatial")} :
        n = Spelling(param) \o <<".">> \o Spelling(m) \o suffix

\* C12: every data variable of a result of verify is named "<param>.<METRIC>" or
\* "<param>.<METRIC>.spatial" for a forecast parameter and one of the ten metrics
\* BIAS, MSE, MAE, VAR, CORR, R2, mean, var, min, max; every data variable of the
\* aggregated result is named so with STDE, std, RMSE in the place of VAR, var,
\* MSE, and every variable of the input has its renamed variable in the result.
C12_VariableNames ==
    /\ pc = "done" => \A v \in out.vars : Named(DataVarName(v), VerifMetrics)
    /\ agg_pc \in {"opened", "done"} =>
           \A n \in agg_ds.data_vars : Named(n, VerifMetrics)
    /\ agg_pc = "done" =>
           /\ \A n \in results.data_vars : Named(n, AggMetrics)
           /\ Cardinality(results.data_vars) = Cardinality(agg_ds.data_vars)

\* An aggregated result that holds T_2M.RMSE, PMSL.STDE and PMSL.std.
C12_Witness ==
    /\ agg_pc = "done"
    /\ Spelling("T_2M") \o <<".">> \o Spelling("RMSE") \in results.data_vars
    /\ Spelling("PMSL") \o <<".">> \o Spelling("STDE") \in results.data_vars
    /\ Spelling("PMSL") \o <<".">> \o Spelling("std") \in results.data_vars

\* -------------------------------------- properties of verif_plot_metrics.py
\* the inputs that hold the source src, and the distinct lead times of input i
Carriers(src)  == {i \in DOMAIN plot_files : src \in plot_files[i].source}
NDistinct(i)   == Cardinality({plot_files[i].lead_time[k] : k \in DOMAIN plot_files[i].lead_time})
InputSources   == UNION {plot_files[i].source : i \in DOMAIN plot_files}

\* C13: after _select_best_sources every source label that occurred in an input
\* occurs in exactly one dataset, one of the inputs that carried it whose number
\* of distinct lead_time values is the greatest among them; no dataset gains a
\* source, and a dataset all of whose sources occur in no other input is left
\* as it was.
C13_BestSourceOnly ==
    plot_pc \in {"selected", "done"} =>
        /\ DOMAIN dfs = DOMAIN plot_files
        /\ \A i \in DOMAIN dfs : dfs[i].source \subseteq plot_files[i].source
        /\ \A src \in InputSources :
               \E i \in Carriers(src) :
                   /\ src \in dfs[i].source
                   /\ \A j \in DOMAIN dfs : j # i => src \notin dfs[j].source
                   /\ \A j \in Carriers(src) : NDistinct(j) <= NDistinct(i)
        /\ \A i \in DOMAIN dfs :
               (\A src \in plot_files[i].source : Carriers(src) = {i}) =>
                   /\ dfs[i].source = plot_files[i].source
                   /\ Cardinality(DOMAIN dfs[i].lead_time) = NDistinct(i)

\* Two inputs share a source, the second holds more distinct lead times and keeps
\* it, and the first input keeps its other source.
C13_Witness ==
    /\ plot_pc = "selected"
    /\ Len(plot_files) = 2
    /\ plot_files[1].source = {fcst_label, obs_label}
    /\ plot_files[2].source = {fcst_label}
    /\ NDistinct(2) > NDistinct(1)
    /\ dfs[1].source = {obs_label}
    /\ dfs[2].source = {fcst_label}

\* the first place of the value l on the lead_time axis of input i
FirstPlace(i, l) ==
    CHOOSE k \in DOMAIN plot_files[i].lead_time :
        /\ plot_files[i].lead_time[k] = l
        /\ \A j \in DOMAIN plot_files[i].lead_time :
               plot_files[i].lead_time[j] = l => k <= j

\* C15: _ensure_unique_lead_time returns a dataset whose lead_time values are
\* pairwise distinct, which holds every value of the input's axis, in the order
\* of the first occurrences, with the data of the first occurrence; a dataset
\* without duplicate lead_time values is returned unchanged.
C15_FirstOccurrenceKept ==
    plot_pc = "unique" =>
        \A i \in DOMAIN dfs :
            LET lt == dfs[i].lead_time
            IN  /\ \A k \in DOMAIN lt, j \in DOMAIN lt : lt[k] = lt[j] => k = j
                /\ {lt[k] : k \in DOMAIN lt}
                       = {plot_files[i].lead_time[k] : k \in DOMAIN plot_files[i].lead_time}
                /\ \A k \in DOMAIN lt, j \in DOMAIN lt :
                       k < j => FirstPlace(i, lt[k]) < FirstPlace(i, lt[j])
                /\ dfs[i].source = plot_files[i].source
                /\ \A src \in dfs[i].source, k \in DOMAIN lt :
                       dfs[i].val[src][k] = plot_files[i].val[src][FirstPlace(i, lt[k])]
                /\ NDistinct(i) = Len(plot_files[i].lead_time) => dfs[i] = plot_files[i]

\* An input whose axis holds a value twice, with another value between or after
\* the two, has been reduced to the first occurrences.
C15_Witness ==
    /\ plot_pc = "unique"
    /\ \E i \in DOMAIN dfs :
           /\ Len(plot_files[i].lead_time) > Len(dfs[i].lead_time)
           /\ Len(dfs[i].lead_time) > 1

\* In verif_plot_metrics.py a file given twice counts once: the dataset made of
\* [ds, ds] is the one made of [ds].
PlotDuplicateDropped ==
    (plot_pc = "done" /\ Len(plot_files) = 2 /\ plot_files[1] = plot_files[2]) =>
        plot_ds = concat_source_outer(<<_ensure_unique_lead_time(plot_files[1])>>)

\* C14: verif_aggregation.py, given the same result file twice, ends with the
\* aggregated result that it gives for that file alone.
C14_DuplicateCountsOnce ==
    (/\ agg_pc \in {"done", "failed"}
     /\ Len(verif_files) = 2
     /\ verif_files[1] = verif_files[2]) =>
        /\ agg_pc = "done"
        /\ results = aggregate_results(open_mfdataset(<<verif_files[1]>>).ds)

\* C16: the aggregated result carries a season and an init_hour coordinate, and
\* selecting season = "all" and init_hour = -999 in it, as the dashboard and the
\* plots do, finds data.
C16_SeasonAndInitHour ==
    agg_pc = "done" =>
        /\ "season" \in results.coords
        /\ "init_hour" \in results.coords
        /\ sel_season_init_hour(results, "all", init_hour_all).error = ""

\* the calendar months of a season bucket
SeasonMonths(se) ==
    CASE se = "DJF" -> {12, 1, 2}
      [] se = "MAM" -> {3, 4, 5}
      [] se = "JJA" -> {6, 7, 8}
      [] se = "SON" -> {9, 10, 11}
      [] se = "all" -> 1 .. 12

\* the reference times of the opened dataset that fall in a bucket, those of
\* them at which the variable n has a value, and the sum of these values
InBucket(se)      == {t \in Range(agg_ds.ref_time) : t[1] \in SeasonMonths(se)}
ValidIn(n, se)    == {t \in InBucket(se) : agg_ds.val[<<n, t>>] # NaN}
SumIn(n, se)      == SumOver(ValidIn(n, se), [t \in ValidIn(n, se) |-> agg_ds.val[<<n, t>>]])

\* v is the mean of the variable n of the opened dataset over the bucket se
\* (root = FALSE) or the square root of that mean (root = TRUE)
IsBucketMean(v, n, se, root) ==
    IF ValidIn(n, se) = {} THEN v = NaN
    ELSE /\ Len(v) = (IF root THEN 3 ELSE 2)
         /\ v[2] > 0
         /\ v[1] * Cardinality(ValidIn(n, se)) = v[2] * SumIn(n, se)
         /\ root => v[3] = 2

\* the name param.METRIC
NameOf(param, m) == Spelling(param) \o <<".">> \o Spelling(m)

\* C17: in the aggregated result the variables made from param.VAR, param.var
\* and param.MSE are named param.STDE, param.std and param.RMSE and hold, in
\* every bucket, the square root of the mean over the bucket's reference times
\* of the input values (so for a single result X.RMSE = sqrt(X.MSE)); the other
\* variables keep their name and hold the mean itself.
C17_RootOfMean ==
    agg_pc = "done" =>
        \A param \in Range(fcst.data_vars), se \in Range(results.season) :
            /\ \A mm \in {<<"VAR", "STDE">>, <<"var", "std">>, <<"MSE", "RMSE">>} :
                   /\ NameOf(param, mm[1]) \notin results.data_vars
                   /\ NameOf(param, mm[2]) \in results.data_vars
                   /\ IsBucketMean(results.val[<<NameOf(param, mm[2]), se>>],
                                   NameOf(param, mm[1]), se, TRUE)
            /\ \A m \in {"BIAS", "MAE", "CORR", "R2", "mean", "min", "max"} :
                   IsBucketMean(results.val[<<NameOf(param, m), se>>],
                                NameOf(param, m), se, FALSE)

\* Two results with the values 0 and 4 are aggregated: T_2M.RMSE of the bucket
\* "all" is the root of 2 (the mean of the roots would be 1).
C17_Witness ==
    /\ agg_pc = "done"
    /\ {agg_ds.val[<<NameOf("T_2M", "MSE"), t>>] : t \in Range(agg_ds.ref_time)}
           = {<<0>>, <<4>>}
    /\ results.val[<<NameOf("T_2M", "RMSE"), "all">>] = <<2, 1, 2>>

\* C18: the season coordinate of the aggregated result is "all" and the seasons
\* of the reference times; the bucket "all" holds the unweighted mean over all
\* reference times and every season bucket the mean over exactly the reference
\* times whose month is of that season (DJF 12, 1, 2; MAM 3, 4, 5; JJA 6, 7, 8;
\* SON 9, 10, 11).
C18_SeasonBuckets ==
    agg_pc = "done" =>
        /\ results.season[1] = "all"
        /\ Range(results.season) =
               {"all"} \cup {se \in {"DJF", "MAM", "JJA", "SON"} : InBucket(se) # {}}
        /\ \A se \in Range(results.season) :
               /\ IsBucketMean(results.val[<<NameOf("T_2M", "BIAS"), se>>],
                               NameOf("T_2M", "BIAS"), se, FALSE)
               /\ IsBucketMean(results.val[<<NameOf("PMSL", "max"), se>>],
                               NameOf("PMSL", "max"), se, FALSE)
        /\ \A month \in 1 .. 12, h \in InitHours :
               /\ month \in SeasonMonths(dt_season(<<month, h>>))
               /\ get_season(<<month, h>>) = dt_season(<<month, h>>)

\* A January and a July result with different values: "all" is their average,
\* DJF the January value and JJA the July value.
C18_Witness ==
    /\ agg_pc = "done"
    /\ \E h1 \in InitHours, h2 \in InitHours :
           /\ agg_ds.ref_time = << <<1, h1>>, <<7, h2>> >>
           /\ agg_ds.val[<<NameOf("T_2M", "BIAS"), <<1, h1>> >>] = <<0>>
           /\ agg_ds.val[<<NameOf("T_2M", "BIAS"), <<7, h2>> >>] = <<4>>
    /\ results.season = <<"all", "DJF", "JJA">>
    /\ results.val[<<NameOf("T_2M", "BIAS"), "all">>] = <<2, 1>>
    /\ results.val[<<NameOf("T_2M", "BIAS"), "DJF">>] = <<0, 1>>
    /\ results.val[<<NameOf("T_2M", "BIAS"), "JJA">>] = <<4, 1>>

\* ------------------------------------------------- properties of the loaders
\* the requested times that the dataset holds, in the order of the request
PresentTimes == SelectSeq(times, LAMBDA t : t \in ds_time)

\* the three-way rule, for a loader that has ended
ThreeWayRule ==
    IF Len(PresentTimes) = Len(times)
    THEN load_pc = "selected" /\ loaded = times /\ load_log = << >>
    ELSE IF PresentTimes # << >>
    THEN load_pc = "selected" /\ loaded = PresentTimes /\ load_log # << >>
    ELSE load_pc = "failed" /\ load_error # "" /\ loaded = << >>

\* C19: every truth loader returns all requested valid times when the dataset
\* holds them all, logs a warning and returns exactly the present ones when it
\* holds some of them, and fails with an error, returning nothing, when it
\* holds none.
C19_ThreeWayRule ==
    (loader \in {"data_input", "verif_baseline", "verif_cosmoe_fct"}
        /\ load_pc \in {"selected", "failed"}) => ThreeWayRule

\* _select_valid_times of data_input follows the three-way rule.
C19_DataInputRule ==
    (loader = "data_input" /\ load_pc \in {"selected", "failed"}) => ThreeWayRule

\* the accumulated value at place k, a missing value counting as 0
AccAt(k) == IF acc[k] = NaN THEN 0 ELSE acc[k][1]

\* the increment max(a - b, 0)
Increment(a, b) == IF a - b > 0 THEN <<a - b>> ELSE <<0>>

IsInteger(x) ==
    LET d == IF Len(x) > 0 /\ x[1] \in {"+", "-"} THEN SubSeq(x, 2, Len(x)) ELSE x
    IN  Len(d) > 0 /\ \A i \in 1 .. Len(d) : d[i] \in Digits

\* the string is three integers separated by two slashes
ThreeIntegers ==
    \E i, j \in 1 .. Len(steps) :
        /\ i < j
        /\ \A k \in 1 .. Len(steps) : steps[k] = "/" <=> k \in {i, j}
        /\ IsInteger(SubSeq(steps, 1, i - 1))
        /\ IsInteger(SubSeq(steps, i + 1, j - 1))
        /\ IsInteger(SubSeq(steps, j + 1, Len(steps)))

\* the parser has returned a list for the string
StepsParsed == steps_pc \in {"main", "opened"}

\* C21: a step string that is not three '/'-separated integers is rejected before
\* any dataset is opened: the validation of a run's steps refuses it, the parser
\* of the scripts raises ValueError for it and returns no list, and main, which
\* opens the datasets, is never reached.
C21_MalformedRejected ==
    ~ThreeIntegers =>
        /\ ~StepsParsed
        /\ ~opened
        /\ lead_times = << >>
        /\ steps_src = "run" => steps_pc \in {"config", "invalid"}
        /\ steps_pc \in {"invalid", "usage_error"} => steps_error = "ValueError"

\* a string of three parts, one of them no integer, was refused by the parser
C21_Witness ==
    /\ ~ThreeIntegers
    /\ Len(split(steps)) = 3
    /\ steps_pc = "usage_error"
    /\ steps_error = "ValueError"

\* start, end and step of a string of three integers
StepStart == int(split(steps)[1])
StepEnd   == int(split(steps)[2])
StepStep  == int(split(steps)[3])

\* the list holds start, start + step, ... in increasing order, none above end,
\* and the next value of the progression is above end
StartToEnd ==
    /\ \A i \in 1 .. Len(lead_times) :
           /\ lead_times[i] = StepStart + (i - 1) * StepStep
           /\ lead_times[i] <= StepEnd
    /\ \A i \in 1 .. Len(lead_times) - 1 : lead_times[i] < lead_times[i + 1]
    /\ StepStart + Len(lead_times) * StepStep > StepEnd

\* C27 as stated: whatever the step, the list returned for 'start/end/step' is
\* start, start + step, ... up to end, in increasing order.
C27_StartToEnd == StepsParsed => StartToEnd

\* C27: for a positive step the list returned for 'start/end/step' is exactly
\* start, start + step, ... not above end, in increasing order, end included when
\* it is hit; a zero step is refused, and a negative step gives the decreasing
\* values start, start + step, ... that are above end + 1.
C27_PositiveStep ==
    /\ StepsParsed /\ StepStep > 0 => StartToEnd
    /\ ThreeIntegers /\ StepStep = 0 => ~StepsParsed
    /\ StepsParsed /\ StepStep < 0 =>
           /\ \A i \in 1 .. Len(lead_times) :
                  /\ lead_times[i] = StepStart + (i - 1) * StepStep
                  /\ lead_times[i] > StepEnd + 1
           /\ StepStart + Len(lead_times) * StepStep <= StepEnd + 1

\* a list of several lead times that stops short of end (as '0/33/6' does)
C27_Witness ==
    /\ StepsParsed
    /\ StepStep > 1
    /\ Len(lead_times) >= 3
    /\ lead_times[Len(lead_times)] < StepEnd

\* C29: a steps string that the validation of the configuration accepted, for a
\* run or for a baseline, is parsed without error into a list that is not empty
\* and starts with the start value.
C29_AcceptedParses ==
    steps_src \in {"run", "baseline"} =>
        /\ steps_pc # "usage_error"
        /\ StepsParsed => lead_times # << >> /\ lead_times[1] = StepStart

\* the same for the steps of a run alone
C29_RunAcceptedParses ==
    steps_src = "run" =>
        /\ steps_pc # "usage_error"
        /\ StepsParsed => lead_times # << >> /\ lead_times[1] = StepStart

\* ------------------------------------------------- configuration and cli
\* every required key of the configuration has a valid value
RequiredValid == \A k \in Required : cli_data[k] = "valid"

\* ... and the configuration holds nothing else that fails: no key that is not a
\* field of ConfigModel, and a valid experiment_label if any
ConfigValid ==
    /\ RequiredValid
    /\ cli_data["experiment_label"] # "invalid"
    /\ \A k \in Keys \ Fields : cli_data[k] = "absent"

\* the validation has raised with "Field required" for the key runs
RunsRequired ==
    /\ cli_config.error = "ValidationError"
    /\ <<"runs", "Field required">> \in cli_config.errors
    /\ cli_raised.type = "ValidationError"

\* C22: a configuration that provides every required top-level field with a valid
\* value (and, as the example files, nothing that fails: extra keys are forbidden)
\* is accepted; any configuration without the key runs is rejected with a
\* validation error that reports "Field required" for runs.
C22_FieldRequired ==
    cli_pc # "start" =>
        /\ ConfigValid => cli_config.error = "" /\ cli_raised.type # "ValidationError"
        /\ cli_data["runs"] = "absent" => RunsRequired

\* the example configuration without runs has been refused
C22_Witness ==
    /\ cli_data["runs"] = "absent"
    /\ \A k \in Required \ {"runs"} : cli_data[k] = "valid"
    /\ cli_pc = "raised"
    /\ RunsRequired

\* the command up to the target: what execute_workflow itself puts before the
\* arguments the user passes through
OwnOptions == SubSeq(command, 1, Len(command) - Len(cli_args.extra_smk_args) - 1)
HasReportOptions ==
    \E i \in 1 .. Len(OwnOptions) : OwnOptions[i] \in {"--report", "--report-after-run"}

\* C28: execute_workflow launches snakemake at most once and only after the
\* configuration was validated; with an invalid configuration it raises the
\* validation error and starts no subprocess; otherwise the call goes on until it
\* raises SystemExit with the return code of the subprocess; and it adds the
\* report options exactly when a report is asked for and dry-run is off.
C28_LaunchAfterValidation ==
    /\ Len(launched) <= 1
    /\ launched # << >> =>
           /\ ConfigValid /\ cli_config.error = ""
           /\ launched[1] = command /\ command[1] = "snakemake"
    /\ ~ConfigValid =>
           /\ launched = << >>
           /\ cli_pc \in {"start", "raised"}
           /\ cli_pc = "raised" => cli_raised.type = "ValidationError"
    /\ ConfigValid =>
           /\ cli_pc # "raised" => ENABLED NextCli
           /\ cli_pc = "raised" =>
                  /\ Len(launched) = 1
                  /\ returncode # NoCode
                  /\ cli_raised = [type |-> "SystemExit", code |-> returncode]
    /\ cli_pc \in {"built", "returned", "raised"} /\ ConfigValid =>
           (HasReportOptions <=> cli_args.report # "" /\ ~cli_args.dry_run)

\* a call with a report has ended with the return code 2 of snakemake
C28_Witness ==
    /\ cli_pc = "raised"
    /\ cli_raised = [type |-> "SystemExit", code |-> <<2>>]
    /\ Len(launched) = 1
    /\ HasReportOptions

\* ---------------------------------------------------------------- colormaps
CmapDone == cmap_pc = "done"

\* the lines of the file that are neither blank nor comments
Content == content_lines(cmap_file.lines)

\* a line that is one integer; a line of numbers; a row of integers
IsCount(l)   == Len(l) = 1 /\ l[1][1] = "int"
IsNumbers(l) == \A i \in 1 .. Len(l) : l[i][1] \in {"int", "float"}
IsIntegers(l) == \A i \in 1 .. Len(l) : l[i][1] = "int"

\* the level count of the first line, and the lines after the second
Levels  == Content[1][1][2]
RgbRows == SubSeq(Content, 3, Len(Content))

\* the first two lines are a level count and as many bounds
HeadWellFormed ==
    /\ cmap_file.exists
    /\ Len(Content) >= 2
    /\ IsCount(Content[1])
    /\ IsNumbers(Content[2])
    /\ Len(Content[2]) = Levels

\* the file is well formed: level count, as many bounds, one more RGB row, each
\* row three integers from 0 to 255
WellFormed ==
    /\ HeadWellFormed
    /\ Len(RgbRows) = Levels + 1
    /\ \A i \in 1 .. Len(RgbRows) :
           /\ Len(RgbRows[i]) = 3
           /\ IsIntegers(RgbRows[i])
           /\ \A j \in 1 .. 3 : RgbRows[i][j][2] \in 0 .. 255

\* the four failures of the tests
ListedFailures ==
    /\ ~cmap_file.exists => cmap_result.error = "FileNotFoundError"
    /\ cmap_file.exists /\ Content # << >> /\ ~IsCount(Content[1]) =>
           cmap_result.error = "ValueError"
    /\ /\ cmap_file.exists /\ Len(Content) >= 2 /\ IsCount(Content[1])
       /\ IsNumbers(Content[2]) /\ Len(Content[2]) # Levels
       => cmap_result.error = "ValueError"
    /\ HeadWellFormed /\ Len(RgbRows) # Levels + 1 => cmap_result.error = "ValueError"

Scaled(l) == [j \in 1 .. 3 |-> Rat(l[j][2], 255)]

\* the colormap of the file: Levels - 1 interior colours from rows 2 .. Levels,
\* the first row under, the last row over, the stem as name, the bounds
ColormapOfFile ==
    /\ cmap_result.error = ""
    /\ cmap_result.cmap.N = Levels - 1
    /\ cmap_result.cmap.colors = [i \in 1 .. Levels - 1 |-> Scaled(RgbRows[i + 1])]
    /\ cmap_result.cmap.under = Scaled(RgbRows[1])
    /\ cmap_result.cmap.over = Scaled(RgbRows[Levels + 1])
    /\ cmap_result.cmap.name = "test_colormap"
    /\ cmap_result.bounds = [i \in 1 .. Levels |-> Content[2][i][2]]
    /\ cmap_result.norm.boundaries = cmap_result.bounds

\* C24 as stated: every well-formed file of n levels gives the colormap of its
\* rows and bounds.
C24_WellFormedLoads == CmapDone /\ WellFormed => ColormapOfFile

\* C24: a well-formed file of n >= 2 levels gives a colormap with the n - 1
\* interior colours of rows 2 .. n scaled by 1/255, the first row under, the last
\* row over, the file stem as name and the n values of the second line as bounds
\* and norm boundaries, comment lines being ignored; a well-formed file of one
\* level is refused with ValueError (a norm needs two boundaries).
C24_TwoLevelsLoad ==
    CmapDone /\ WellFormed =>
        IF Levels >= 2 THEN ColormapOfFile ELSE cmap_result.error = "ValueError"

\* a well-formed file of three levels with a comment line was loaded
C24_Witness ==
    /\ CmapDone
    /\ WellFormed
    /\ Levels = 3
    /\ Len(cmap_file.lines) > Len(Content)
    /\ cmap_result.error = ""
    /\ cmap_result.cmap.N = 2

\* ------------------------------------------------------------ frame effects
\* C25: verify and aggregate_results leave the datasets passed to them as they
\* were: no step of verify changes the forecast or the truth dataset of the
\* caller, and aggregate_results does not change the dataset of the per-run
\* results it is given; the masked fields, the square roots and the renamed
\* variables are held by new objects only.
C25_InputsUnchanged ==
    [][/\ fcst' = fcst
       /\ obs' = obs
       /\ agg_pc = "opened" => agg_ds' = agg_ds]_vars

\* both calls have returned, the aggregated result holding T_2M.RMSE.spatial while
\* the dataset passed to aggregate_results still holds T_2M.MSE.spatial
C25_Witness ==
    /\ pc = "done"
    /\ out # EmptyDataset
    /\ agg_pc = "done"
    /\ \E t \in Range(agg_ds.ref_time) :
           <<NameOf("T_2M", "MSE"), t>> \in DOMAIN agg_ds.val
    /\ <<NameOf("T_2M", "RMSE"), "all">> \in DOMAIN results.val
    /\ results # agg_ds

\* ---------------------------------------------------------- the region set
\* the names of the region set, and the polygons held under a name
RegionNames == {region_polygons[i].name : i \in DOMAIN region_polygons}
PolygonsOf(name) ==
    region_polygons[CHOOSE i \in DOMAIN region_polygons :
                        region_polygons[i].name = name].polygons

\* the polygons of the last file of the list with the stem s
LastWith(s) ==
    LET last == CHOOSE i \in DOMAIN regions.shp :
                    /\ stem(regions.shp[i]) = s
                    /\ \A j \in DOMAIN regions.shp :
                           stem(regions.shp[j]) = s => j <= i
    IN  [k \in DOMAIN records(regions.shp[last]) |->
             transform(records(regions.shp[last])[k])]

\* one region per stem of the list, with the polygons of the last file of the stem
OnePerStem ==
    /\ RegionNames = {"all"} \cup {stem(regions.shp[i]) : i \in DOMAIN regions.shp}
    /\ Len(region_polygons) = Cardinality(RegionNames)
    /\ \A i \in DOMAIN regions.shp :
           PolygonsOf(stem(regions.shp[i])) = LastWith(stem(regions.shp[i]))

\* C26: for every list of shapefiles (that can be read) the region set holds the
\* region 'all' with the built-in rectangle as its only polygon, besides one
\* region per distinct stem with the polygons of the last file of that stem, and
\* there is at least one mask.
C26_BuiltInAllPresent ==
    MasksComputed /\ regions.kind = "list" =>
        /\ "all" \in RegionNames
        /\ PolygonsOf("all") = <<AllPolygon>>
        /\ OnePerStem
        /\ masks # << >>

\* the same for the lists without a file of the stem 'all'
C26_UnlessFileNamedAll ==
    /\ MasksComputed /\ regions.kind = "list"
    /\ \A i \in DOMAIN regions.shp : stem(regions.shp[i]) # "all"
    => /\ "all" \in RegionNames
       /\ PolygonsOf("all") = <<AllPolygon>>
       /\ OnePerStem
       /\ masks # << >>

\* ----------------------------------------------------------- the output store
\* the store keeps what it held, and after the run holds the input too, each
\* reference time once; it is written anew only when it held nothing, and only by
\* the first to_zarr call of the run
StoreKept ==
    /\ Range(store0.reftimes) \subseteq Range(store.reftimes)
    /\ store_pc = "done" =>
           /\ Range(archive) \subseteq Range(store.reftimes)
           /\ \A i, j \in DOMAIN store.reftimes :
                  store.reftimes[i] = store.reftimes[j] => i = j
    /\ \A k \in DOMAIN store_ops :
           store_ops[k].mode = "w" => k = 1 /\ store0.reftimes = << >>

\* C30: without overwrite a run of main never removes or rewrites the reference
\* times the output store holds: at the end the store holds every reference time
\* it held before and every one of the input, each once, and it is created in
\* write mode only when it held none, before any append.
C30_StoreOnlyGrows == ~cfg.overwrite /\ store_pc # "idle" => StoreKept

\* the same for the runs whose store, if it holds anything, starts with the first
\* reference time of the input and holds the variables cfg.params
C30_WhenStoreMatches ==
    /\ ~cfg.overwrite /\ store_pc # "idle"
    /\ \/ store0.reftimes = << >>
       \/ store0.reftimes[1] = archive[1] /\ store0.data_vars = cfg.params
    => StoreKept

====
